---- MODULE Spec2Model ----
(***************************************************************************)
(* Storage-access layer of the portfolio API: one DynamoDB table keyed by  *)
(* (PK, SK) with one secondary index (GSI1PK, GSI1SK), the content         *)
(* repositories (blog posts, projects, certifications) and the counter     *)
(* repositories (content views, visitors).                                 *)
(*                                                                         *)
(* Strings built with '#' separators are modelled as tuples of their       *)
(* parts: 'BLOG#STATUS#DRAFT' is <<"BLOG", "STATUS", "DRAFT">>.  A         *)
(* timestamp is the clock value read; Null is Python's None in a           *)
(* timestamp attribute.  Every call to the table (get_item, put_item,      *)
(* update_item, delete_item, query) is one atomic step; a repository       *)
(* method that makes several calls is several steps, which other request   *)
(* handlers may interleave with.                                           *)
(***************************************************************************)
EXTENDS Integers, Sequences, FiniteSets, TLC

\* ------------------------------------------------------------- bounds
MaxIds == 2
MaxClock == 2
NumProcs == 2
\* a category count is followed while it is within -MaxCount..MaxCount
MaxCount == 2

Procs == 1..NumProcs
Ids == 1..MaxIds
Times == 1..MaxClock

\* ------------------------------------------------------------- values
Null == 0
None == [none |-> TRUE]
Invalid == [invalid |-> TRUE]

CertTypes == {"certification", "course"}
Statuses == {"DRAFT", "PUBLISHED"}

VARIABLES
    table,      \* the DynamoDB table: a function from <<PK, SK>> to the item
    now,        \* the wall clock, datetime.now(UTC)
    nextId,     \* the ids uuid4() has handed out are 1..nextId-1
    pc,         \* pc[p]: where request handler p stands in its method
    arg,        \* arg[p]: the call handler p is running
    tmp,        \* tmp[p]: the method's local variables
    res,        \* res[p]: the last call handler p completed, with its result
    repo,       \* the repository whose methods the handlers call
    tracked     \* history: the (session, subject) pairs track has been called with

vars == <<table, now, nextId, pc, arg, tmp, res, repo, tracked>>

\* ------------------------------------------------------------- records
HasAttr(item, a) == a \in DOMAIN item

SetAttr(item, a, v) == [x \in DOMAIN item \cup {a} |-> IF x = a THEN v ELSE item[x]]

\* SET #data.<a> = v: a nested path needs the map it goes through
SetData(item, a, v) ==
    IF item = Invalid \/ ~HasAttr(item, "Data") THEN Invalid
    ELSE [item EXCEPT !.Data = SetAttr(item.Data, a, v)]

\* SET <a> = v on a top-level attribute
SetTop(item, a, v) == IF item = Invalid THEN Invalid ELSE SetAttr(item, a, v)

\* SET <a> = if_not_exists(<a>, v)
SetTopIfNotExists(item, a, v) ==
    IF item = Invalid THEN Invalid
    ELSE IF HasAttr(item, a) THEN item ELSE SetAttr(item, a, v)

\* ------------------------------------------------------------- the clock
\* one read of datetime.now(): the clock may have advanced since the last read
ClockReads == {t \in Times : t = now \/ t = now + 1}

\* ------------------------------------------------------------- BaseRepository
Key(pk, sk) == <<pk, sk>>

get_item(t, pk, sk) == IF Key(pk, sk) \in DOMAIN t THEN t[Key(pk, sk)] ELSE None

put_item(t, item) ==
    [k \in DOMAIN t \cup {Key(item.PK, item.SK)} |->
        IF k = Key(item.PK, item.SK) THEN item ELSE t[k]]

\* what an update expression is applied to: the stored item, or for an upsert
\* an item of the key alone
ItemOrKey(t, pk, sk) ==
    IF get_item(t, pk, sk) = None THEN [PK |-> pk, SK |-> sk] ELSE get_item(t, pk, sk)

\* an update_item whose write goes through when the condition fails
update_item_writes_anyway(t, pk, sk, new, condition) ==
    IF new = Invalid THEN [tbl |-> t, ret |-> None, raised |-> condition]
    ELSE [tbl |-> put_item(t, new), ret |-> IF condition THEN new ELSE None, raised |-> FALSE]

\* update_item with ReturnValues=ALL_NEW.  new is the update expression applied
\* to ItemOrKey, condition the condition expression evaluated on the stored
\* item (None when there is none).  ret is the new item, None on
\* ConditionalCheckFailedException; raised is any other ClientError (an update
\* path that does not exist in the item).
update_item(t, pk, sk, new, condition) ==
    IF ~condition THEN [tbl |-> t, ret |-> None, raised |-> FALSE]
    ELSE IF new = Invalid THEN [tbl |-> t, ret |-> None, raised |-> TRUE]
    ELSE [tbl |-> put_item(t, new), ret |-> new, raised |-> FALSE]

\* a delete_item that reports True whether or not the condition held
delete_item_true(t, pk, sk, condition) ==
    [tbl |-> [k \in DOMAIN t \ {Key(pk, sk)} |-> t[k]], deleted |-> TRUE]

\* delete_item: True if deleted, False if the condition failed
delete_item(t, pk, sk, condition) ==
    IF ~condition THEN [tbl |-> t, deleted |-> FALSE]
    ELSE [tbl |-> [k \in DOMAIN t \ {Key(pk, sk)} |-> t[k]], deleted |-> TRUE]

\* condition expressions
NoCondition(cur) == TRUE
AttributeExistsPK(cur) == cur # None
\* a publish whose condition is only that the item exists
StatusIsDraftOrNot(cur) == cur # None

StatusIsDraft(cur) == cur # None /\ HasAttr(cur, "Status") /\ cur.Status = "DRAFT"
StatusIsPublished(cur) == cur # None /\ HasAttr(cur, "Status") /\ cur.Status = "PUBLISHED"

\* the items of the table
Items(t) == {t[k] : k \in DOMAIN t}

\* lexicographic order on tuples of numbers
RECURSIVE IntSeqLess(_, _)
IntSeqLess(a, b) ==
    IF a = <<>> THEN b # <<>>
    ELSE IF b = <<>> THEN FALSE
    ELSE IF Head(a) # Head(b) THEN Head(a) < Head(b)
    ELSE IntSeqLess(Tail(a), Tail(b))

\* the order of the index inside one partition: by GSI1SK (the text after its
\* fixed prefix), items with equal GSI1SK by their primary key
IndexBefore(x, y) ==
    \/ IntSeqLess(Tail(x.GSI1SK), Tail(y.GSI1SK))
    \/ /\ Tail(x.GSI1SK) = Tail(y.GSI1SK)
       /\ x.PK[Len(x.PK)] < y.PK[Len(y.PK)]

RECURSIVE InOrder(_, _)
InOrder(S, forward) ==
    IF S = {} THEN <<>>
    ELSE LET first == CHOOSE x \in S : \A y \in S \ {x} :
                        IF forward THEN IndexBefore(x, y) ELSE IndexBefore(y, x)
         IN  <<first>> \o InOrder(S \ {first}, forward)

FirstN(seq, limit) == IF limit = Null \/ limit >= Len(seq) THEN seq ELSE SubSeq(seq, 1, limit)

\* query on GSI1 with the key condition GSI1PK = :gsi1pk: the items that carry
\* both index keys and meet it, in index order, cut at Limit
query(t, gsi1pk, scan_index_forward, limit) ==
    LET matching == {it \in Items(t) :
                        HasAttr(it, "GSI1PK") /\ HasAttr(it, "GSI1SK") /\ it.GSI1PK = gsi1pk}
    IN  FirstN(InOrder(matching, scan_index_forward), limit)

Get(data, k, default) == IF k \in DOMAIN data THEN data[k] ELSE default

\* ------------------------------------------------------------- handlers
Idle == "idle"

NoData == << >>

\* the call a handler is running
Call(op, kind, id, data) == [op |-> op, kind |-> kind, id |-> id, data |-> data]

NoCall == Call("none", "none", Null, NoData)

\* the record of a completed call: ok says that it returned a record (for
\* delete, True) and not None (False); value is the number a counter call returns
Result(op, kind, id, ok) ==
    [op |-> op, kind |-> kind, id |-> id, ok |-> ok, value |-> Null,
     session |-> Null, day |-> Null, counted |-> FALSE]

NoResult == Result("none", "none", Null, FALSE)

\* the locals of a method between its table calls: cur holds the attributes of
\* the record read first that the method uses later, cat is the category whose
\* count is being changed, after the category to increment once cat is
\* decremented, out the result the method will return
NoTmp == [cur |-> NoData, cat |-> "", after |-> "", out |-> NoResult]

Return(p, r) ==
    /\ pc' = [pc EXCEPT ![p] = Idle]
    /\ tmp' = [tmp EXCEPT ![p] = NoTmp]
    /\ arg' = [arg EXCEPT ![p] = NoCall]
    /\ res' = [res EXCEPT ![p] = r]
    /\ UNCHANGED repo

Goto(p, label, call, locals) ==
    /\ pc' = [pc EXCEPT ![p] = label]
    /\ tmp' = [tmp EXCEPT ![p] = locals]
    /\ arg' = [arg EXCEPT ![p] = call]
    /\ UNCHANGED <<res, repo>>

\* Data merged with the top-level Status as 'status'
from_item(item) ==
    IF item = None \/ ~HasAttr(item, "Data") THEN None
    ELSE IF HasAttr(item, "Status") THEN SetAttr(item.Data, "status", item.Status)
    ELSE item.Data

\* create sets status, createdAt and updatedAt over whatever the caller gave
CreateData(data, t1, t2) ==
    SetAttr(SetAttr(SetAttr(data, "status", "DRAFT"), "createdAt", t1), "updatedAt", t2)

\* an update that also puts the entity back to DRAFT
SetAllowedAsDraft(item, data, allowed) ==
    IF ~HasAttr(item, "Data") THEN Invalid
    ELSE [item EXCEPT !.Status = "DRAFT",
                      !.Data = [x \in DOMAIN item.Data \cup (DOMAIN data \cap allowed) |->
                        IF x \in DOMAIN data \cap allowed THEN data[x] ELSE item.Data[x]]]

\* SET #data.<k> = data[k] for every supplied key k that is in the allowed list
SetAllowed(item, data, allowed) ==
    IF ~HasAttr(item, "Data") THEN Invalid
    ELSE [item EXCEPT !.Data =
            [x \in DOMAIN item.Data \cup (DOMAIN data \cap allowed) |->
                IF x \in DOMAIN data \cap allowed THEN data[x] ELSE item.Data[x]]]

\* ------------------------------------------------------------- BlogRepository
\* a text is a sequence of characters; these are the ones str.split() splits at
Whitespace == {" ", "\t", "\n"}

\* len(content.split()): the words are the maximal runs without whitespace, one
\* for each character that starts a run
word_count(content) ==
    Cardinality({i \in 1..Len(content) :
                    /\ content[i] \notin Whitespace
                    /\ (i = 1 \/ content[i - 1] \in Whitespace)})

\* max(1, word_count // 200)
read_time(content) ==
    LET words == word_count(content)
    IN  IF words \div 200 >= 1 THEN words \div 200 ELSE 1

blog_to_item(data, uuid) ==
    LET blog_id == IF Get(data, "id", Null) # Null THEN data.id ELSE uuid
        status == Get(data, "status", "DRAFT")
        published_at == Get(data, "publishedAt", Null)
        created_at == data.createdAt
    IN  [PK |-> <<"BLOG", blog_id>>,
         SK |-> <<"METADATA">>,
         GSI1PK |-> <<"BLOG", "STATUS", status>>,
         GSI1SK |-> <<"BLOG", IF published_at # Null THEN published_at ELSE created_at>>,
         EntityType |-> "BLOG",
         Status |-> status,
         Data |-> [id |-> blog_id,
                   title |-> Get(data, "title", ""),
                   content |-> Get(data, "content", << >>),
                   category |-> Get(data, "category", ""),
                   readTime |-> read_time(Get(data, "content", << >>)),
                   publishedAt |-> published_at,
                   createdAt |-> created_at,
                   updatedAt |-> data.updatedAt]]

blog_get_by_id(t, blog_id) == from_item(get_item(t, <<"BLOG", blog_id>>, <<"METADATA">>))

\* the fields a caller supplies to create: the request's validated fields
ValidBlogFields(titles, categories) == [title : titles, category : categories \cup {""}]

\* the partial field maps a caller supplies to update
BlogUpdateFields(titles, categories) ==
    [title : titles] \cup [category : categories \cup {""}]
        \cup [title : titles, category : categories \cup {""}] \cup {NoData}

BlogUpdatable == {"title", "excerpt", "content", "category", "tags", "readTime", "updatedAt"}

BlogCreate(p, data) ==
    /\ repo = "BLOG"
    /\ pc[p] = Idle
    /\ Get(data, "id", Null) # Null \/ nextId <= MaxIds
    /\ \E t1 \in ClockReads : \E t2 \in {t \in Times : t = t1 \/ t = t1 + 1} :
        LET item == blog_to_item(CreateData(data, t1, t2), nextId)
            out == Result("create", "BLOG", item.Data.id, from_item(item) # None)
        IN  /\ table' = put_item(table, item)
            /\ now' = t2
            /\ nextId' = IF Get(data, "id", Null) # Null THEN nextId ELSE nextId + 1
            /\ UNCHANGED tracked
            /\ IF Get(data, "category", "") # ""
               THEN Goto(p, "cat_inc_init", Call("create", "BLOG", item.Data.id, data),
                         [NoTmp EXCEPT !.cat = data.category, !.out = out])
               ELSE Return(p, out)

\* an update that leaves the read time as it is
KeepReadTime(data) == data

\* if 'content' in data: data['readTime'] = max(1, word_count // 200)
RecalculateReadTime(data) ==
    IF HasAttr(data, "content") THEN SetAttr(data, "readTime", read_time(data.content)) ELSE data

\* update, first call: read the current post
BlogUpdateGet(p, id, data) ==
    /\ repo = "BLOG"
    /\ pc[p] = Idle
    /\ LET current_post == blog_get_by_id(table, id)
       IN  IF current_post = None
           THEN Return(p, Result("update", "BLOG", id, FALSE))
           ELSE Goto(p, "blog_update_write", Call("update", "BLOG", id, data),
                     [NoTmp EXCEPT !.cur = [category |-> current_post.category]])
    /\ UNCHANGED <<table, now, nextId, tracked>>

\* update, second call: the conditional write, then the category bookkeeping
BlogUpdateWrite(p) ==
    /\ repo = "BLOG"
    /\ pc[p] = "blog_update_write"
    /\ \E t \in ClockReads :
        LET id == arg[p].id
            data == RecalculateReadTime(SetAttr(arg[p].data, "updatedAt", t))
            current_post == tmp[p].cur
            u == update_item(table, <<"BLOG", id>>, <<"METADATA">>,
                     SetAllowed(ItemOrKey(table, <<"BLOG", id>>, <<"METADATA">>), data, BlogUpdatable),
                     AttributeExistsPK(get_item(table, <<"BLOG", id>>, <<"METADATA">>)))
            out == Result("update", "BLOG", id, from_item(u.ret) # None)
            old_category == current_post.category
            new_category == Get(data, "category", "")
        IN  /\ table' = u.tbl
            /\ now' = t
            /\ IF HasAttr(data, "category") /\ data.category # current_post.category
               THEN IF old_category # ""
                    THEN Goto(p, "cat_dec", arg[p],
                              [NoTmp EXCEPT !.cat = old_category, !.after = new_category,
                                            !.out = out])
                    ELSE Goto(p, "cat_inc_init", arg[p],
                              [NoTmp EXCEPT !.cat = new_category, !.out = out])
               ELSE Return(p, out)
    /\ UNCHANGED <<nextId, tracked>>

\* delete, first call: read the post for its category
BlogDeleteGet(p, id) ==
    /\ repo = "BLOG"
    /\ pc[p] = Idle
    /\ LET post == blog_get_by_id(table, id)
       IN  IF post = None
           THEN Return(p, Result("delete", "BLOG", id, FALSE))
           ELSE Goto(p, "blog_delete_write", Call("delete", "BLOG", id, NoData),
                     [NoTmp EXCEPT !.cur = [category |-> post.category]])
    /\ UNCHANGED <<table, now, nextId, tracked>>

\* a delete that decrements the category whether or not it deleted the post
BlogDeleteWriteDecrementsAnyway(p) ==
    /\ repo = "BLOG"
    /\ pc[p] = "blog_delete_write"
    /\ LET id == arg[p].id
           post == tmp[p].cur
           d == delete_item(table, <<"BLOG", id>>, <<"METADATA">>,
                AttributeExistsPK(get_item(table, <<"BLOG", id>>, <<"METADATA">>)))
           out == Result("delete", "BLOG", id, d.deleted)
       IN  /\ table' = d.tbl
           /\ IF post.category # ""
              THEN Goto(p, "cat_dec", arg[p], [NoTmp EXCEPT !.cat = post.category, !.out = out])
              ELSE Return(p, out)
    /\ UNCHANGED <<now, nextId, tracked>>

\* delete, second call: the conditional delete, then the category decrement
BlogDeleteWrite(p) ==
    /\ repo = "BLOG"
    /\ pc[p] = "blog_delete_write"
    /\ LET id == arg[p].id
           post == tmp[p].cur
           d == delete_item(table, <<"BLOG", id>>, <<"METADATA">>,
                AttributeExistsPK(get_item(table, <<"BLOG", id>>, <<"METADATA">>)))
           out == Result("delete", "BLOG", id, d.deleted)
       IN  /\ table' = d.tbl
           /\ IF d.deleted /\ post.category # ""
              THEN Goto(p, "cat_dec", arg[p], [NoTmp EXCEPT !.cat = post.category, !.out = out])
              ELSE Return(p, out)
    /\ UNCHANGED <<now, nextId, tracked>>

\* a publish that leaves the index sort key as it was
BlogPublishSetStaleKey(item, published_at) ==
    SetData(SetData(SetData(
        SetTop(SetTop(item, "Status", "PUBLISHED"),
               "GSI1PK", <<"BLOG", "STATUS", "PUBLISHED">>),
        "Status", "PUBLISHED"), "publishedAt", published_at), "updatedAt", published_at)

\* publish: one conditional write on the current Status
BlogPublishSet(item, published_at) ==
    SetData(SetData(SetData(
        SetTop(SetTop(SetTop(item, "Status", "PUBLISHED"),
                      "GSI1PK", <<"BLOG", "STATUS", "PUBLISHED">>),
               "GSI1SK", <<"BLOG", published_at>>),
        "Status", "PUBLISHED"), "publishedAt", published_at), "updatedAt", published_at)

BlogPublish(p, id) ==
    /\ repo = "BLOG"
    /\ pc[p] = Idle
    /\ \E published_at \in ClockReads :
        LET u == update_item(table, <<"BLOG", id>>, <<"METADATA">>,
                     BlogPublishSet(ItemOrKey(table, <<"BLOG", id>>, <<"METADATA">>), published_at),
                     StatusIsDraft(get_item(table, <<"BLOG", id>>, <<"METADATA">>)))
        IN  /\ table' = u.tbl
            /\ now' = published_at
            /\ Return(p, Result("publish", "BLOG", id, from_item(u.ret) # None))
    /\ UNCHANGED <<nextId, tracked>>

\* unpublish, first call: read the post for its createdAt
BlogUnpublishGet(p, id) ==
    /\ repo = "BLOG"
    /\ pc[p] = Idle
    /\ LET post == blog_get_by_id(table, id)
       IN  IF post = None
           THEN Return(p, Result("unpublish", "BLOG", id, FALSE))
           ELSE Goto(p, "blog_unpublish_write", Call("unpublish", "BLOG", id, NoData),
                     [NoTmp EXCEPT !.cur = [createdAt |-> post.createdAt]])
    /\ UNCHANGED <<table, now, nextId, tracked>>

BlogUnpublishSet(item, created_at, updated_at) ==
    SetData(SetData(SetData(
        SetTop(SetTop(SetTop(item, "Status", "DRAFT"),
                      "GSI1PK", <<"BLOG", "STATUS", "DRAFT">>),
               "GSI1SK", <<"BLOG", created_at>>),
        "Status", "DRAFT"), "publishedAt", Null), "updatedAt", updated_at)

\* unpublish, second call: the conditional write
BlogUnpublishWrite(p) ==
    /\ repo = "BLOG"
    /\ pc[p] = "blog_unpublish_write"
    /\ \E updated_at \in ClockReads :
        LET id == arg[p].id
            created_at == tmp[p].cur.createdAt
            u == update_item(table, <<"BLOG", id>>, <<"METADATA">>,
                     BlogUnpublishSet(ItemOrKey(table, <<"BLOG", id>>, <<"METADATA">>), created_at, updated_at),
                     StatusIsPublished(get_item(table, <<"BLOG", id>>, <<"METADATA">>)))
        IN  /\ table' = u.tbl
            /\ now' = updated_at
            /\ Return(p, Result("unpublish", "BLOG", id, from_item(u.ret) # None))
    /\ UNCHANGED <<nextId, tracked>>

list_posts(t, status, limit) ==
    LET result == query(t, <<"BLOG", "STATUS", status>>, FALSE, limit)
    IN  [i \in 1..Len(result) |-> from_item(result[i])]

\* _increment_category_count, first call: create the aggregate if it is absent
CategoryInitSet(item, category) ==
    SetTopIfNotExists(SetTopIfNotExists(item, "EntityType", "BLOG_CATEGORY"),
                      "Data", [category |-> category, count |-> 0])

IncrementCategoryInit(p) ==
    /\ repo = "BLOG"
    /\ pc[p] = "cat_inc_init"
    /\ LET u == update_item(table, <<"BLOG", "CATEGORY", tmp[p].cat>>, <<"COUNT">>,
                    CategoryInitSet(ItemOrKey(table, <<"BLOG", "CATEGORY", tmp[p].cat>>, <<"COUNT">>), tmp[p].cat),
                    NoCondition(get_item(table, <<"BLOG", "CATEGORY", tmp[p].cat>>, <<"COUNT">>)))
       IN  /\ table' = u.tbl
           /\ Goto(p, "cat_inc_add", arg[p], tmp[p])
    /\ UNCHANGED <<now, nextId, tracked>>

\* an increment that stores one whatever the count was
CategoryAddSetOne(item) ==
    IF ~HasAttr(item, "Data") THEN Invalid ELSE SetData(item, "count", 1)

\* SET #data.#count = if_not_exists(#data.#count, :zero) + :increment
CategoryAddSet(item) ==
    IF ~HasAttr(item, "Data") THEN Invalid
    ELSE SetData(item, "count", Get(item.Data, "count", 0) + 1)

category_count(t, category) ==
    LET item == get_item(t, <<"BLOG", "CATEGORY", category>>, <<"COUNT">>)
    IN  IF item = None \/ ~HasAttr(item, "Data") THEN 0 ELSE Get(item.Data, "count", 0)

\* _increment_category_count, second call; an exception is swallowed
IncrementCategoryAdd(p) ==
    /\ repo = "BLOG"
    /\ pc[p] = "cat_inc_add"
    /\ category_count(table, tmp[p].cat) < MaxCount
    /\ LET u == update_item(table, <<"BLOG", "CATEGORY", tmp[p].cat>>, <<"COUNT">>,
                    CategoryAddSet(ItemOrKey(table, <<"BLOG", "CATEGORY", tmp[p].cat>>, <<"COUNT">>)),
                    NoCondition(get_item(table, <<"BLOG", "CATEGORY", tmp[p].cat>>, <<"COUNT">>)))
       IN  /\ table' = u.tbl
           /\ Return(p, tmp[p].out)
    /\ UNCHANGED <<now, nextId, tracked>>

\* SET #data.#count = #data.#count - :decrement
CategorySubSet(item) ==
    IF ~HasAttr(item, "Data") \/ ~HasAttr(item.Data, "count") THEN Invalid
    ELSE SetData(item, "count", item.Data.count - 1)

\* _decrement_category_count; an exception is swallowed
DecrementCategory(p) ==
    /\ repo = "BLOG"
    /\ pc[p] = "cat_dec"
    /\ category_count(table, tmp[p].cat) > -MaxCount
    /\ LET u == update_item(table, <<"BLOG", "CATEGORY", tmp[p].cat>>, <<"COUNT">>,
                    CategorySubSet(ItemOrKey(table, <<"BLOG", "CATEGORY", tmp[p].cat>>, <<"COUNT">>)),
                    NoCondition(get_item(table, <<"BLOG", "CATEGORY", tmp[p].cat>>, <<"COUNT">>)))
       IN  /\ table' = u.tbl
           /\ IF tmp[p].after # ""
              THEN Goto(p, "cat_inc_init", arg[p],
                        [tmp[p] EXCEPT !.cat = tmp[p].after, !.after = ""])
              ELSE Return(p, tmp[p].out)
    /\ UNCHANGED <<now, nextId, tracked>>

\* ------------------------------------------------------------- ProjectRepository
project_to_item(data, uuid) ==
    LET project_id == IF Get(data, "id", Null) # Null THEN data.id ELSE uuid
        status == Get(data, "status", "DRAFT")
        created_at == data.createdAt
    IN  [PK |-> <<"PROJECT", project_id>>,
         SK |-> <<"METADATA">>,
         GSI1PK |-> <<"PROJECT", "STATUS", status>>,
         GSI1SK |-> <<"PROJECT", created_at>>,
         EntityType |-> "PROJECT",
         Status |-> status,
         Data |-> [id |-> project_id,
                   name |-> Get(data, "name", ""),
                   createdAt |-> created_at,
                   updatedAt |-> data.updatedAt]]

ValidProjectFields(names) == [name : names]

ProjectUpdateFields(names) == [name : names] \cup {NoData}

\* an allowed list that lets createdAt through
ProjectUpdatableWithCreatedAt ==
    {"name", "description", "longDescription", "tech", "company", "featured",
     "githubUrl", "liveUrl", "imageUrl", "updatedAt", "createdAt"}

ProjectUpdatable ==
    {"name", "description", "longDescription", "tech", "company", "featured",
     "githubUrl", "liveUrl", "imageUrl", "updatedAt"}

ProjectCreate(p, data) ==
    /\ repo = "PROJECT"
    /\ pc[p] = Idle
    /\ Get(data, "id", Null) # Null \/ nextId <= MaxIds
    /\ \E t1 \in ClockReads : \E t2 \in {t \in Times : t = t1 \/ t = t1 + 1} :
        LET item == project_to_item(CreateData(data, t1, t2), nextId)
        IN  /\ table' = put_item(table, item)
            /\ now' = t2
            /\ nextId' = IF Get(data, "id", Null) # Null THEN nextId ELSE nextId + 1
            /\ UNCHANGED tracked
            /\ Return(p, Result("create", "PROJECT", item.Data.id, from_item(item) # None))

project_get_by_id(t, project_id) ==
    from_item(get_item(t, <<"PROJECT", project_id>>, <<"METADATA">>))

\* update: updatedAt is always among the SET parts, so the write always happens
ProjectUpdate(p, id, fields) ==
    /\ repo = "PROJECT"
    /\ pc[p] = Idle
    /\ \E t \in ClockReads :
        LET data == SetAttr(fields, "updatedAt", t)
            u == update_item(table, <<"PROJECT", id>>, <<"METADATA">>,
                     SetAllowed(ItemOrKey(table, <<"PROJECT", id>>, <<"METADATA">>), data, ProjectUpdatable),
                     AttributeExistsPK(get_item(table, <<"PROJECT", id>>, <<"METADATA">>)))
        IN  /\ table' = u.tbl
            /\ now' = t
            /\ Return(p, Result("update", "PROJECT", id, from_item(u.ret) # None))
    /\ UNCHANGED <<nextId, tracked>>

ProjectDelete(p, id) ==
    /\ repo = "PROJECT"
    /\ pc[p] = Idle
    /\ LET d == delete_item(table, <<"PROJECT", id>>, <<"METADATA">>,
                AttributeExistsPK(get_item(table, <<"PROJECT", id>>, <<"METADATA">>)))
       IN  /\ table' = d.tbl
           /\ Return(p, Result("delete", "PROJECT", id, d.deleted))
    /\ UNCHANGED <<now, nextId, tracked>>

\* SET #status, GSI1PK, #data.#status, #data.updatedAt
\* a transition that writes Status but not the index partition key
TransitionSetNoIndex(item, status, gsi1pk, updated_at) ==
    SetData(SetData(SetTop(item, "Status", status), "Status", status),
            "updatedAt", updated_at)

TransitionSet(item, status, gsi1pk, updated_at) ==
    SetData(SetData(SetTop(SetTop(item, "Status", status), "GSI1PK", gsi1pk),
                    "Status", status), "updatedAt", updated_at)

\* a publish that writes the status with no condition on the stored item
ProjectPublishUpsert(p, id) ==
    /\ repo = "PROJECT"
    /\ pc[p] = Idle
    /\ \E updated_at \in ClockReads :
        LET u == update_item(table, <<"PROJECT", id>>, <<"METADATA">>,
                     SetTop(SetTop(ItemOrKey(table, <<"PROJECT", id>>, <<"METADATA">>),
                                   "Status", "PUBLISHED"),
                            "GSI1PK", <<"PROJECT", "STATUS", "PUBLISHED">>),
                     NoCondition(get_item(table, <<"PROJECT", id>>, <<"METADATA">>)))
        IN  /\ table' = u.tbl
            /\ now' = updated_at
            /\ Return(p, Result("publish", "PROJECT", id, from_item(u.ret) # None))
    /\ UNCHANGED <<nextId, tracked>>

ProjectPublish(p, id) ==
    /\ repo = "PROJECT"
    /\ pc[p] = Idle
    /\ \E updated_at \in ClockReads :
        LET u == update_item(table, <<"PROJECT", id>>, <<"METADATA">>,
                     TransitionSet(ItemOrKey(table, <<"PROJECT", id>>, <<"METADATA">>), "PUBLISHED", <<"PROJECT", "STATUS", "PUBLISHED">>, updated_at),
                     StatusIsDraft(get_item(table, <<"PROJECT", id>>, <<"METADATA">>)))
        IN  /\ table' = u.tbl
            /\ now' = updated_at
            /\ Return(p, Result("publish", "PROJECT", id, from_item(u.ret) # None))
    /\ UNCHANGED <<nextId, tracked>>

ProjectUnpublish(p, id) ==
    /\ repo = "PROJECT"
    /\ pc[p] = Idle
    /\ \E updated_at \in ClockReads :
        LET u == update_item(table, <<"PROJECT", id>>, <<"METADATA">>,
                     TransitionSet(ItemOrKey(table, <<"PROJECT", id>>, <<"METADATA">>), "DRAFT", <<"PROJECT", "STATUS", "DRAFT">>, updated_at),
                     StatusIsPublished(get_item(table, <<"PROJECT", id>>, <<"METADATA">>)))
        IN  /\ table' = u.tbl
            /\ now' = updated_at
            /\ Return(p, Result("unpublish", "PROJECT", id, from_item(u.ret) # None))
    /\ UNCHANGED <<nextId, tracked>>

list_projects(t, status, limit) ==
    LET result == query(t, <<"PROJECT", "STATUS", status>>, FALSE, limit)
    IN  [i \in 1..Len(result) |-> from_item(result[i])]

\* ------------------------------------------------------------- CertificationRepository
\* dateEarned defaults to a further read of the clock, t3
cert_to_item(data, uuid, t3) ==
    LET cert_id == IF Get(data, "id", Null) # Null THEN data.id ELSE uuid
        status == Get(data, "status", "DRAFT")
        cert_type == Get(data, "type", "certification")
        date_earned == IF Get(data, "dateEarned", Null) # Null THEN data.dateEarned ELSE t3
    IN  [PK |-> <<"CERT", cert_id>>,
         SK |-> <<"METADATA">>,
         GSI1PK |-> <<"CERT", "STATUS", status, cert_type>>,
         GSI1SK |-> <<"CERT", date_earned>>,
         EntityType |-> "CERTIFICATION",
         Status |-> status,
         Data |-> [id |-> cert_id,
                   name |-> Get(data, "name", ""),
                   type |-> cert_type,
                   featured |-> Get(data, "featured", FALSE),
                   dateEarned |-> date_earned,
                   createdAt |-> data.createdAt,
                   updatedAt |-> data.updatedAt]]

ValidCertFields(names, dates) ==
    [name : names, type : CertTypes] \cup [name : names, type : CertTypes, dateEarned : dates]

CertUpdateFields(names, dates) ==
    [name : names] \cup [type : CertTypes] \cup [dateEarned : dates] \cup {NoData}

CertUpdatable ==
    {"name", "issuer", "icon", "type", "featured", "description", "credentialUrl",
     "dateEarned", "updatedAt"}

CertCreate(p, data) ==
    /\ repo = "CERT"
    /\ pc[p] = Idle
    /\ Get(data, "id", Null) # Null \/ nextId <= MaxIds
    /\ \E t1 \in ClockReads : \E t2 \in {t \in Times : t = t1 \/ t = t1 + 1} :
       \E t3 \in {t \in Times : t = t2 \/ (t = t2 + 1 /\ ~HasAttr(data, "dateEarned"))} :
        LET item == cert_to_item(CreateData(data, t1, t2), nextId, t3)
        IN  /\ table' = put_item(table, item)
            /\ now' = t3
            /\ nextId' = IF Get(data, "id", Null) # Null THEN nextId ELSE nextId + 1
            /\ UNCHANGED tracked
            /\ Return(p, Result("create", "CERT", item.Data.id, from_item(item) # None))

cert_get_by_id(t, cert_id) == from_item(get_item(t, <<"CERT", cert_id>>, <<"METADATA">>))

CertUpdate(p, id, fields) ==
    /\ repo = "CERT"
    /\ pc[p] = Idle
    /\ \E t \in ClockReads :
        LET data == SetAttr(fields, "updatedAt", t)
            u == update_item(table, <<"CERT", id>>, <<"METADATA">>,
                     SetAllowed(ItemOrKey(table, <<"CERT", id>>, <<"METADATA">>), data, CertUpdatable),
                     AttributeExistsPK(get_item(table, <<"CERT", id>>, <<"METADATA">>)))
        IN  /\ table' = u.tbl
            /\ now' = t
            /\ Return(p, Result("update", "CERT", id, from_item(u.ret) # None))
    /\ UNCHANGED <<nextId, tracked>>

CertDelete(p, id) ==
    /\ repo = "CERT"
    /\ pc[p] = Idle
    /\ LET d == delete_item(table, <<"CERT", id>>, <<"METADATA">>,
                AttributeExistsPK(get_item(table, <<"CERT", id>>, <<"METADATA">>)))
       IN  /\ table' = d.tbl
           /\ Return(p, Result("delete", "CERT", id, d.deleted))
    /\ UNCHANGED <<now, nextId, tracked>>

\* publish, first call: read the certification for its type
CertPublishGet(p, id) ==
    /\ repo = "CERT"
    /\ pc[p] = Idle
    /\ LET cert == cert_get_by_id(table, id)
       IN  IF cert = None
           THEN Return(p, Result("publish", "CERT", id, FALSE))
           ELSE Goto(p, "cert_publish_write", Call("publish", "CERT", id, NoData),
                     [NoTmp EXCEPT !.cur = [type |-> Get(cert, "type", "certification")]])
    /\ UNCHANGED <<table, now, nextId, tracked>>

\* unpublish, first call: read the certification for its type
CertUnpublishGet(p, id) ==
    /\ repo = "CERT"
    /\ pc[p] = Idle
    /\ LET cert == cert_get_by_id(table, id)
       IN  IF cert = None
           THEN Return(p, Result("unpublish", "CERT", id, FALSE))
           ELSE Goto(p, "cert_unpublish_write", Call("unpublish", "CERT", id, NoData),
                     [NoTmp EXCEPT !.cur = [type |-> Get(cert, "type", "certification")]])
    /\ UNCHANGED <<table, now, nextId, tracked>>

\* a second call that trusts the record read by the first: it writes whenever
\* the item is still there
CertPublishWriteAfterRead(p) ==
    /\ repo = "CERT"
    /\ pc[p] = "cert_publish_write"
    /\ \E updated_at \in ClockReads :
        LET id == arg[p].id
            cert_type == tmp[p].cur.type
            u == update_item(table, <<"CERT", id>>, <<"METADATA">>,
                     TransitionSet(ItemOrKey(table, <<"CERT", id>>, <<"METADATA">>), "PUBLISHED", <<"CERT", "STATUS", "PUBLISHED", cert_type>>, updated_at),
                     AttributeExistsPK(get_item(table, <<"CERT", id>>, <<"METADATA">>)))
        IN  /\ table' = u.tbl
            /\ now' = updated_at
            /\ Return(p, Result("publish", "CERT", id, from_item(u.ret) # None))
    /\ UNCHANGED <<nextId, tracked>>

\* publish, second call: the conditional write
CertPublishWrite(p) ==
    /\ repo = "CERT"
    /\ pc[p] = "cert_publish_write"
    /\ \E updated_at \in ClockReads :
        LET id == arg[p].id
            cert_type == tmp[p].cur.type
            u == update_item(table, <<"CERT", id>>, <<"METADATA">>,
                     TransitionSet(ItemOrKey(table, <<"CERT", id>>, <<"METADATA">>), "PUBLISHED", <<"CERT", "STATUS", "PUBLISHED", cert_type>>, updated_at),
                     StatusIsDraft(get_item(table, <<"CERT", id>>, <<"METADATA">>)))
        IN  /\ table' = u.tbl
            /\ now' = updated_at
            /\ Return(p, Result("publish", "CERT", id, from_item(u.ret) # None))
    /\ UNCHANGED <<nextId, tracked>>

\* unpublish, second call: the conditional write
CertUnpublishWrite(p) ==
    /\ repo = "CERT"
    /\ pc[p] = "cert_unpublish_write"
    /\ \E updated_at \in ClockReads :
        LET id == arg[p].id
            cert_type == tmp[p].cur.type
            u == update_item(table, <<"CERT", id>>, <<"METADATA">>,
                     TransitionSet(ItemOrKey(table, <<"CERT", id>>, <<"METADATA">>), "DRAFT", <<"CERT", "STATUS", "DRAFT", cert_type>>, updated_at),
                     StatusIsPublished(get_item(table, <<"CERT", id>>, <<"METADATA">>)))
        IN  /\ table' = u.tbl
            /\ now' = updated_at
            /\ Return(p, Result("unpublish", "CERT", id, from_item(u.ret) # None))
    /\ UNCHANGED <<nextId, tracked>>

\* None as the value of an optional status or type parameter
Unset == "None"

\* list.sort(key=dateEarned, reverse=True): stable, equal keys keep their order
RECURSIVE SortByDateEarnedDesc(_)
SortByDateEarnedDesc(items) ==
    IF items = <<>> THEN <<>>
    ELSE LET rest == SortByDateEarnedDesc(Tail(items))
             x == Head(items)
             k == Cardinality({i \in 1..Len(rest) : rest[i].Data.dateEarned > x.Data.dateEarned})
         IN  SubSeq(rest, 1, k) \o <<x>> \o SubSeq(rest, k + 1, Len(rest))

cert_query(t, status, cert_type, limit) ==
    query(t, <<"CERT", "STATUS", status, cert_type>>, FALSE, limit)

\* list_certifications: with a status and no type, one query per type, merged,
\* sorted by date and cut at limit; with a status and a type, one query; with
\* no status, nothing
list_certifications(t, status, cert_type, limit) ==
    LET items ==
            IF status # Unset /\ cert_type = Unset
            THEN FirstN(SortByDateEarnedDesc(cert_query(t, status, "certification", limit)
                                             \o cert_query(t, status, "course", limit)), limit)
            ELSE IF status # Unset /\ cert_type # Unset
            THEN cert_query(t, status, cert_type, limit)
            ELSE <<>>
    IN  [i \in 1..Len(items) |-> from_item(items[i])]

\* ------------------------------------------------------------- content: the system
\* the ids two parallel handlers work on
ConcIds == 1

Repos == {"BLOG", "PROJECT", "CERT"}

InitContent ==
    /\ table = << >>
    /\ now = 1
    /\ nextId = 1
    /\ repo \in Repos
    /\ pc = [p \in Procs |-> Idle]
    /\ arg = [p \in Procs |-> NoCall]
    /\ tmp = [p \in Procs |-> NoTmp]
    /\ res = [p \in Procs |-> NoResult]
    /\ tracked = {}

Init == InitContent

\* the inputs of a study: the ids the calls name and the field values they carry
Inputs(ids, titles, categories, dates) ==
    [ids |-> ids, titles |-> titles, categories |-> categories, dates |-> dates]

BlogStep(p, in) ==
    \/ \E data \in ValidBlogFields(in.titles, in.categories) :
            nextId \in in.ids /\ BlogCreate(p, data)
    \/ \E id \in in.ids : \E data \in BlogUpdateFields(in.titles, in.categories) :
            BlogUpdateGet(p, id, data)
    \/ BlogUpdateWrite(p)
    \/ \E id \in in.ids : BlogDeleteGet(p, id)
    \/ BlogDeleteWrite(p)
    \/ \E id \in in.ids : BlogPublish(p, id)
    \/ \E id \in in.ids : BlogUnpublishGet(p, id)
    \/ BlogUnpublishWrite(p)
    \/ IncrementCategoryInit(p)
    \/ IncrementCategoryAdd(p)
    \/ DecrementCategory(p)

ProjectStep(p, in) ==
    \/ \E data \in ValidProjectFields(in.titles) : nextId \in in.ids /\ ProjectCreate(p, data)
    \/ \E id \in in.ids : \E data \in ProjectUpdateFields(in.titles) : ProjectUpdate(p, id, data)
    \/ \E id \in in.ids : ProjectDelete(p, id)
    \/ \E id \in in.ids : ProjectPublish(p, id)
    \/ \E id \in in.ids : ProjectUnpublish(p, id)

CertStep(p, in) ==
    \/ \E data \in ValidCertFields(in.titles, in.dates) : nextId \in in.ids /\ CertCreate(p, data)
    \/ \E id \in in.ids : \E data \in CertUpdateFields(in.titles, in.dates) :
            CertUpdate(p, id, data)
    \/ \E id \in in.ids : CertDelete(p, id)
    \/ \E id \in in.ids : CertPublishGet(p, id)
    \/ CertPublishWrite(p)
    \/ \E id \in in.ids : CertUnpublishGet(p, id)
    \/ CertUnpublishWrite(p)

\* a step of handler p in the repository under study
ContentStep(p, in) ==
    \/ BlogStep(p, in)
    \/ ProjectStep(p, in)
    \/ CertStep(p, in)

\* request handlers running in parallel on the same entities
ConcInputs == Inputs(1..ConcIds, {"t1"}, {"Backend"}, {})

Next == \E p \in Procs : ContentStep(p, ConcInputs)

Spec == Init /\ [][Next]_vars

\* one request at a time
SeqInputs == Inputs(Ids, {"t1"}, {"Backend"}, {1})

NextSeq == ContentStep(1, SeqInputs)

SpecSeq == Init /\ [][NextSeq]_vars

\* ------------------------------------------------------------- content: claims
\* the stored record of an entity, and what the repository's reads return
Entity(t, kind, id) == get_item(t, <<kind, id>>, <<"METADATA">>)

StatusOf(t, kind, id) ==
    IF Entity(t, kind, id) = None THEN "ABSENT" ELSE Entity(t, kind, id).Status

get_by_id(t, kind, id) == from_item(Entity(t, kind, id))

EntityItems(t) == {it \in Items(t) : it.SK = <<"METADATA">>}

\* handler p returns from publish(id) in this step
PublishCompletes(p, id) ==
    \/ repo = "BLOG" /\ BlogPublish(p, id)
    \/ repo = "PROJECT" /\ ProjectPublish(p, id)
    \/ repo = "CERT" /\ CertPublishGet(p, id) /\ pc'[p] = Idle
    \/ repo = "CERT" /\ CertPublishWrite(p) /\ arg[p].id = id

\* handler p returns from unpublish(id) in this step
UnpublishCompletes(p, id) ==
    \/ repo = "BLOG" /\ BlogUnpublishGet(p, id) /\ pc'[p] = Idle
    \/ repo = "BLOG" /\ BlogUnpublishWrite(p) /\ arg[p].id = id
    \/ repo = "PROJECT" /\ ProjectUnpublish(p, id)
    \/ repo = "CERT" /\ CertUnpublishGet(p, id) /\ pc'[p] = Idle
    \/ repo = "CERT" /\ CertUnpublishWrite(p) /\ arg[p].id = id

\* C1: with one request at a time, in every repository, a publish that directly
\* follows a publish of the same entity returns None, and unpublish returns a
\* record only if the entity's status is PUBLISHED (on a DRAFT entity it returns None).
C1_RepeatedPublishIsNoOp ==
    [][\A id \in Ids :
        /\ (res[1].op = "publish" /\ res[1].id = id /\ PublishCompletes(1, id))
                => ~res'[1].ok
        /\ (UnpublishCompletes(1, id) /\ res'[1].ok)
                => StatusOf(table, repo, id) = "PUBLISHED"
        /\ (UnpublishCompletes(1, id) /\ StatusOf(table, repo, id) = "DRAFT")
                => ~res'[1].ok]_vars

\* a second publish has returned None on an entity the first one published
C1_Witness ==
    \E id \in Ids :
        /\ res[1] = Result("publish", repo, id, FALSE)
        /\ pc[1] = Idle
        /\ StatusOf(table, repo, id) = "PUBLISHED"

\* C2: with handlers running in parallel, a publish returns the record only if
\* its write found the entity DRAFT and left it PUBLISHED, so of two publish
\* calls racing on one DRAFT entity at most one succeeds; the one that returns
\* None leaves the record as it was, and no step leaves Status and the status
\* in the index key different.
C2_ParallelPublishOneWinner ==
    [][/\ \A p \in Procs : \A id \in Ids :
            PublishCompletes(p, id) =>
                IF res'[p].ok
                THEN /\ StatusOf(table, repo, id) = "DRAFT"
                     /\ StatusOf(table', repo, id) = "PUBLISHED"
                ELSE Entity(table', repo, id) = Entity(table, repo, id)
       /\ \A it \in EntityItems(table') : it.GSI1PK[3] = it.Status]_vars

\* one publish has returned the record while the other, begun on the same
\* certification, still has its conditional write to make
C2_Witness ==
    \E id \in Ids :
        /\ pc[1] = "cert_publish_write" /\ arg[1].id = id
        /\ pc[2] = Idle /\ res[2] = Result("publish", "CERT", id, TRUE)
        /\ StatusOf(table, "CERT", id) = "PUBLISHED"

\* the page size the lists are read with
ListLimit == 3

list(t, kind, status, limit) ==
    CASE kind = "BLOG" -> list_posts(t, status, limit)
      [] kind = "PROJECT" -> list_projects(t, status, limit)
      [] kind = "CERT" -> list_certifications(t, status, Unset, limit)

\* C4: after any sequence of create, update, delete, publish and unpublish,
\* every entity's GSI1PK carries the status its Status attribute holds, and
\* every record list(status) returns has that status.
C4_IndexConsistency ==
    /\ \A it \in EntityItems(table) : it.GSI1PK[3] = it.Status
    /\ \A status \in Statuses :
        LET page == list(table, repo, status, ListLimit)
        IN  \A i \in 1..Len(page) : page[i].status = status

\* one entity is listed as PUBLISHED and another as DRAFT
C4_Witness ==
    /\ Len(list(table, repo, "PUBLISHED", ListLimit)) = 1
    /\ Len(list(table, repo, "DRAFT", ListLimit)) = 1
    /\ res[1].op = "publish" /\ res[1].ok

\* C5: an existing entity's status changes only from DRAFT to PUBLISHED in the
\* step a publish of it succeeds, or from PUBLISHED to DRAFT in the step an
\* unpublish of it succeeds; a stored status is always DRAFT or PUBLISHED.
C5_StatusStateMachine ==
    [][\A id \in Ids :
        LET old == StatusOf(table, repo, id)
            new == StatusOf(table', repo, id)
        IN  /\ new \in Statuses \cup {"ABSENT"}
            /\ (old # "ABSENT" /\ new # "ABSENT" /\ old # new) =>
                \E p \in Procs :
                    \/ /\ old = "DRAFT" /\ new = "PUBLISHED"
                       /\ PublishCompletes(p, id) /\ res'[p].ok
                    \/ /\ old = "PUBLISHED" /\ new = "DRAFT"
                       /\ UnpublishCompletes(p, id) /\ res'[p].ok]_vars

\* an entity has gone DRAFT, PUBLISHED, DRAFT while another one exists
C5_Witness ==
    \E id \in Ids : \E other \in Ids \ {id} :
        /\ res[1] = Result("unpublish", repo, id, TRUE) /\ pc[1] = Idle
        /\ StatusOf(table, repo, id) = "DRAFT"
        /\ StatusOf(table, repo, other) = "PUBLISHED"

\* C6: once create has returned, get_by_id of the returned id gives a record
\* with status DRAFT and createdAt equal to updatedAt.
C6_CreateThenGet ==
    (pc[1] = Idle /\ res[1].op = "create" /\ res[1].ok) =>
        LET record == get_by_id(table, repo, res[1].id)
        IN  /\ record # None
            /\ record.status = "DRAFT"
            /\ record.createdAt = record.updatedAt

\* ------------------------------------------------------------- tracking: values
MaxSessions == 2
MaxContentIds == 2
\* the instants a visitor study sees: enough to reach a second calendar day
MaxVisitorClock == 3
\* the instants of the clock that fall on one calendar day
TicksPerDay == 2

Sessions == 1..MaxSessions
ContentIds == 1..MaxContentIds
ContentTypes == {"blog", "project"}

\* the last instant of a study: track_view reads no calendar day
Horizon == IF repo = "VISITOR" THEN MaxVisitorClock ELSE MaxClock

\* a read of the clock that follows a read of t
ReadsAfter(t) == {u \in 1..Horizon : u = t \/ u = t + 1}

\* strftime("%Y-%m-%d"): the calendar day an instant falls on
Day(t) == (t - 1) \div TicksPerDay + 1

\* replace(hour=0, minute=0, second=0, microsecond=0): the first instant of the day
Midnight(t) == (Day(t) - 1) * TicksPerDay + 1

\* str(n) of a count, as its decimal digits
RECURSIVE Str(_)
Str(n) == IF n < 10 THEN <<n>> ELSE Str(n \div 10) \o <<n % 10>>

\* s.zfill(width): zeros on the left up to width, nothing cut
RECURSIVE zfill(_, _)
zfill(digits, width) ==
    IF Len(digits) >= width THEN digits ELSE zfill(<<0>> \o digits, width)

PadWidth == 10

\* SET #data.<a> = if_not_exists(#data.<a>, 0) + 1
AddOne(item, a) ==
    IF item = Invalid \/ ~HasAttr(item, "Data") THEN Invalid
    ELSE SetData(item, a, Get(item.Data, a, 0) + 1)

\* the call of a track method and its completed record
TrackCall(op, kind, id, session, retry) ==
    Call(op, kind, id, [session |-> session, retry |-> retry])

\* counted says that the call took the first-sight path and added to the counters
TrackResult(call, day, value, counted) ==
    [op |-> call.op, kind |-> call.kind, id |-> call.id, ok |-> TRUE,
     value |-> value, session |-> call.data.session, day |-> day, counted |-> counted]

\* ------------------------------------------------------------- AnalyticsRepository
get_view_count(t, content_type, content_id) ==
    LET item == get_item(t, <<"ANALYTICS", content_type, content_id>>, <<"VIEWS">>)
    IN  IF item = None THEN 0 ELSE Get(Get(item, "Data", << >>), "viewCount", 0)

get_total_views(t) ==
    LET item == get_item(t, <<"ANALYTICS", "TOTAL">>, <<"VIEWS">>)
    IN  IF item = None THEN 0 ELSE Get(Get(item, "Data", << >>), "totalViews", 0)

\* a track_view that never looks at the marker
TrackViewBeginAlways(p, content_type, content_id, session_id, retry) ==
    /\ tracked' = tracked \cup {<<session_id, content_type, content_id>>}
    /\ Goto(p, "view_init",
            TrackCall("track_view", content_type, content_id, session_id, retry), NoTmp)
    /\ UNCHANGED <<table, now, nextId>>

\* track_view, first call: look for the session's marker of this content
TrackViewBegin(p, content_type, content_id, session_id, retry) ==
    LET session_item == get_item(table, <<"ANALYTICS", "SESSION", session_id>>,
                                 <<content_type, content_id>>)
        call == TrackCall("track_view", content_type, content_id, session_id, retry)
    IN  /\ tracked' = tracked \cup {<<session_id, content_type, content_id>>}
        /\ IF session_item # None
           THEN Goto(p, "view_read", call, NoTmp)
           ELSE Goto(p, "view_init", call, NoTmp)
        /\ UNCHANGED <<table, now, nextId>>

TrackViewGet(p, content_type, content_id, session_id) ==
    /\ repo = "ANALYTICS"
    /\ pc[p] = Idle
    /\ TrackViewBegin(p, content_type, content_id, session_id, FALSE)

\* a repeat call that renews the session marker's expiry
ViewReadRenewsMarker(p) ==
    /\ repo = "ANALYTICS"
    /\ pc[p] = "view_read"
    /\ Return(p, TrackResult(arg[p], Null, get_view_count(table, arg[p].kind, arg[p].id), FALSE))
    /\ table' = [table EXCEPT ![Key(<<"ANALYTICS", "SESSION", arg[p].data.session>>,
                                      <<arg[p].kind, arg[p].id>>)].ExpiresAt = @ + 1]
    /\ UNCHANGED <<now, nextId, tracked>>

\* already viewed: read the aggregate and return its count
ViewRead(p) ==
    /\ repo = "ANALYTICS"
    /\ pc[p] = "view_read"
    /\ Return(p, TrackResult(arg[p], Null, get_view_count(table, arg[p].kind, arg[p].id), FALSE))
    /\ UNCHANGED <<table, now, nextId, tracked>>

\* an initialisation that writes the empty aggregate over whatever is stored
ViewInitOverwrite(item, content_type, content_id, last_viewed) ==
    SetTop(SetTop(SetTop(item,
        "GSI1PK", <<"ANALYTICS", content_type>>),
        "EntityType", "ANALYTICS_VIEW"),
        "Data", [contentId |-> content_id, contentType |-> content_type,
                 viewCount |-> 0, lastViewed |-> last_viewed])

ViewInitSet(item, content_type, content_id, last_viewed) ==
    SetTopIfNotExists(SetTopIfNotExists(SetTopIfNotExists(item,
        "GSI1PK", <<"ANALYTICS", content_type>>),
        "EntityType", "ANALYTICS_VIEW"),
        "Data", [contentId |-> content_id, contentType |-> content_type,
                 viewCount |-> 0, lastViewed |-> last_viewed])

\* create the aggregate if it is absent
ViewInit(p) ==
    /\ repo = "ANALYTICS"
    /\ pc[p] = "view_init"
    /\ \E last_viewed \in ReadsAfter(now) :
        LET u == update_item(table, <<"ANALYTICS", arg[p].kind, arg[p].id>>, <<"VIEWS">>,
                     ViewInitSet(ItemOrKey(table, <<"ANALYTICS", arg[p].kind, arg[p].id>>, <<"VIEWS">>), arg[p].kind, arg[p].id, last_viewed),
                     NoCondition(get_item(table, <<"ANALYTICS", arg[p].kind, arg[p].id>>, <<"VIEWS">>)))
        IN  /\ table' = u.tbl
            /\ now' = last_viewed
            /\ Goto(p, "view_increment", arg[p], NoTmp)
    /\ UNCHANGED <<nextId, tracked>>

\* an increment that records the time of the view and leaves the count alone
ViewIncrementSetTimeOnly(item, last_viewed) == SetData(item, "lastViewed", last_viewed)
ViewIncrementSet(item, last_viewed) == SetData(AddOne(item, "viewCount"), "lastViewed", last_viewed)

\* the atomic add; view_count is read from the item the update returns
ViewIncrement(p) ==
    /\ repo = "ANALYTICS"
    /\ pc[p] = "view_increment"
    /\ \E last_viewed \in ReadsAfter(now) :
        LET u == update_item(table, <<"ANALYTICS", arg[p].kind, arg[p].id>>, <<"VIEWS">>,
                     ViewIncrementSet(ItemOrKey(table, <<"ANALYTICS", arg[p].kind, arg[p].id>>, <<"VIEWS">>), last_viewed),
                     NoCondition(get_item(table, <<"ANALYTICS", arg[p].kind, arg[p].id>>, <<"VIEWS">>)))
            view_count == IF u.ret = None THEN 1
                          ELSE Get(Get(u.ret, "Data", << >>), "viewCount", 1)
        IN  /\ ~u.raised
            /\ table' = u.tbl
            /\ now' = last_viewed
            /\ Goto(p, "view_sort_key", arg[p], [NoTmp EXCEPT !.cur = [view_count |-> view_count]])
    /\ UNCHANGED <<nextId, tracked>>

\* a sort-key update that lands on the aggregates of the content id under
\* one content type and one content id of the other
ViewSetSortKeyEveryType(p) ==
    /\ repo = "ANALYTICS"
    /\ pc[p] = "view_sort_key"
    /\ LET padded_count == zfill(Str(tmp[p].cur.view_count), PadWidth)
       IN  /\ table' = [k \in DOMAIN table \cup {Key(<<"ANALYTICS", c, arg[p].id>>, <<"VIEWS">>) : c \in ContentTypes} |->
                            IF k \in {Key(<<"ANALYTICS", c, arg[p].id>>, <<"VIEWS">>) : c \in ContentTypes}
                            THEN SetTop(ItemOrKey(table, k[1], k[2]), "GSI1SK", <<"ANALYTICS", "VIEWS", padded_count>>)
                            ELSE table[k]]
           /\ Goto(p, "view_marker", arg[p], tmp[p])
    /\ UNCHANGED <<now, nextId, tracked>>

\* the index sort key carries the padded count
ViewSetSortKey(p) ==
    /\ repo = "ANALYTICS"
    /\ pc[p] = "view_sort_key"
    /\ LET padded_count == zfill(Str(tmp[p].cur.view_count), PadWidth)
           u == update_item(table, <<"ANALYTICS", arg[p].kind, arg[p].id>>, <<"VIEWS">>,
                    SetTop(ItemOrKey(table, <<"ANALYTICS", arg[p].kind, arg[p].id>>, <<"VIEWS">>), "GSI1SK", <<"ANALYTICS", "VIEWS", padded_count>>),
                    NoCondition(get_item(table, <<"ANALYTICS", arg[p].kind, arg[p].id>>, <<"VIEWS">>)))
       IN  /\ table' = u.tbl
           /\ Goto(p, "view_marker", arg[p], tmp[p])
    /\ UNCHANGED <<now, nextId, tracked>>

\* a session marker that expires the instant it is written
ViewPutMarkerNoLifetime(p) ==
    /\ repo = "ANALYTICS"
    /\ pc[p] = "view_marker"
    /\ \E t1 \in ReadsAfter(now) : \E t2 \in ReadsAfter(t1) :
        /\ table' = put_item(table,
                [PK |-> <<"ANALYTICS", "SESSION", arg[p].data.session>>,
                 SK |-> <<arg[p].kind, arg[p].id>>,
                 EntityType |-> "ANALYTICS_SESSION",
                 Data |-> [viewedAt |-> t2],
                 ExpiresAt |-> t1])
        /\ now' = t2
        /\ Goto(p, "view_total_init", arg[p], tmp[p])
    /\ UNCHANGED <<nextId, tracked>>

\* the session marker, written without a condition; it expires a day later
ViewPutMarker(p) ==
    /\ repo = "ANALYTICS"
    /\ pc[p] = "view_marker"
    /\ \E t1 \in ReadsAfter(now) : \E t2 \in ReadsAfter(t1) :
        /\ table' = put_item(table,
                [PK |-> <<"ANALYTICS", "SESSION", arg[p].data.session>>,
                 SK |-> <<arg[p].kind, arg[p].id>>,
                 EntityType |-> "ANALYTICS_SESSION",
                 Data |-> [viewedAt |-> t2],
                 ExpiresAt |-> t1 + TicksPerDay])
        /\ now' = t2
        /\ Goto(p, "view_total_init", arg[p], tmp[p])
    /\ UNCHANGED <<nextId, tracked>>

ViewTotalInitSet(item, last_updated) ==
    SetTopIfNotExists(SetTopIfNotExists(item, "EntityType", "ANALYTICS_TOTAL"),
                      "Data", [totalViews |-> 0, lastUpdated |-> last_updated])

ViewTotalInit(p) ==
    /\ repo = "ANALYTICS"
    /\ pc[p] = "view_total_init"
    /\ \E last_updated \in ReadsAfter(now) :
        LET u == update_item(table, <<"ANALYTICS", "TOTAL">>, <<"VIEWS">>,
                     ViewTotalInitSet(ItemOrKey(table, <<"ANALYTICS", "TOTAL">>, <<"VIEWS">>), last_updated),
                     NoCondition(get_item(table, <<"ANALYTICS", "TOTAL">>, <<"VIEWS">>)))
        IN  /\ table' = u.tbl
            /\ now' = last_updated
            /\ Goto(p, "view_total_increment", arg[p], tmp[p])
    /\ UNCHANGED <<nextId, tracked>>

\* a total that is set to one rather than added to
ViewTotalSetOne(item, updated) == SetData(SetData(item, "totalViews", 1), "lastUpdated", updated)

ViewTotalIncrementSet(item, updated) == SetData(AddOne(item, "totalViews"), "lastUpdated", updated)

ViewTotalIncrement(p) ==
    /\ repo = "ANALYTICS"
    /\ pc[p] = "view_total_increment"
    /\ \E updated \in ReadsAfter(now) :
        LET u == update_item(table, <<"ANALYTICS", "TOTAL">>, <<"VIEWS">>,
                     ViewTotalIncrementSet(ItemOrKey(table, <<"ANALYTICS", "TOTAL">>, <<"VIEWS">>), updated),
                     NoCondition(get_item(table, <<"ANALYTICS", "TOTAL">>, <<"VIEWS">>)))
        IN  /\ ~u.raised
            /\ table' = u.tbl
            /\ now' = updated
            /\ Return(p, TrackResult(arg[p], Null, tmp[p].cur.view_count, TRUE))
    /\ UNCHANGED <<nextId, tracked>>

\* ------------------------------------------------------------- VisitorRepository
get_daily_count(t, date) ==
    LET item == get_item(t, <<"VISITOR", "DAILY", date>>, <<"COUNT">>)
    IN  IF item = None THEN 0 ELSE Get(Get(item, "Data", << >>), "count", 0)

get_total_count(t) ==
    LET item == get_item(t, <<"VISITOR", "TOTAL">>, <<"COUNT">>)
    IN  IF item = None THEN 0 ELSE Get(Get(item, "Data", << >>), "totalCount", 0)

\* track_visitor, first call: today is read off the clock, then the session's
\* marker is looked up; it suppresses the count only if it was written today
TrackVisitorBegin(p, session_id, retry) ==
    \E t \in ReadsAfter(now) :
        LET today == Day(t)
            session_item == get_item(table, <<"VISITOR", "SESSION", session_id>>, <<"TRACKED">>)
            call == TrackCall("track_visitor", "VISITOR", Null, session_id, retry)
            locals == [NoTmp EXCEPT !.cur = [today |-> today]]
        IN  /\ tracked' = tracked \cup {<<session_id, today>>}
            /\ now' = t
            /\ IF session_item # None
                    /\ Get(Get(session_item, "Data", << >>), "lastTrackedDate", Null) = today
               THEN Goto(p, "visitor_read", call, locals)
               ELSE Goto(p, "daily_init", call, locals)
            /\ UNCHANGED <<table, nextId>>

TrackVisitorGet(p, session_id) ==
    /\ repo = "VISITOR"
    /\ pc[p] = Idle
    /\ TrackVisitorBegin(p, session_id, FALSE)

\* already tracked today: read the day's aggregate and return its count
VisitorRead(p) ==
    /\ repo = "VISITOR"
    /\ pc[p] = "visitor_read"
    /\ Return(p, TrackResult(arg[p], tmp[p].cur.today,
                             get_daily_count(table, tmp[p].cur.today), FALSE))
    /\ UNCHANGED <<table, now, nextId, tracked>>

DailyInitSet(item, today) ==
    SetTopIfNotExists(SetTopIfNotExists(item, "EntityType", "VISITOR_DAILY"),
                      "Data", [date |-> today, count |-> 0])

\* tomorrow_midnight is computed from a further read of the clock, then the
\* day's aggregate is created if it is absent
DailyInit(p) ==
    /\ repo = "VISITOR"
    /\ pc[p] = "daily_init"
    /\ \E t \in ReadsAfter(now) :
        LET tomorrow_midnight == Midnight(t) + 2 * TicksPerDay
            today == tmp[p].cur.today
            u == update_item(table, <<"VISITOR", "DAILY", today>>, <<"COUNT">>,
                     DailyInitSet(ItemOrKey(table, <<"VISITOR", "DAILY", today>>, <<"COUNT">>), today),
                     NoCondition(get_item(table, <<"VISITOR", "DAILY", today>>, <<"COUNT">>)))
        IN  /\ table' = u.tbl
            /\ now' = t
            /\ Goto(p, "daily_increment", arg[p],
                    [NoTmp EXCEPT !.cur = [today |-> today,
                                           tomorrow_midnight |-> tomorrow_midnight]])
    /\ UNCHANGED <<nextId, tracked>>

DailyIncrement(p) ==
    /\ repo = "VISITOR"
    /\ pc[p] = "daily_increment"
    /\ LET u == update_item(table, <<"VISITOR", "DAILY", tmp[p].cur.today>>, <<"COUNT">>,
                    AddOne(ItemOrKey(table, <<"VISITOR", "DAILY", tmp[p].cur.today>>, <<"COUNT">>), "count"),
                    NoCondition(get_item(table, <<"VISITOR", "DAILY", tmp[p].cur.today>>, <<"COUNT">>)))
       IN  /\ ~u.raised
           /\ table' = u.tbl
           /\ Goto(p, "visitor_marker", arg[p], tmp[p])
    /\ UNCHANGED <<now, nextId, tracked>>

\* the session marker, written without a condition
VisitorPutMarker(p) ==
    /\ repo = "VISITOR"
    /\ pc[p] = "visitor_marker"
    /\ \E t \in ReadsAfter(now) :
        /\ table' = put_item(table,
                [PK |-> <<"VISITOR", "SESSION", arg[p].data.session>>,
                 SK |-> <<"TRACKED">>,
                 EntityType |-> "VISITOR_SESSION",
                 Data |-> [lastTrackedDate |-> tmp[p].cur.today, lastTrackedTime |-> t],
                 ExpiresAt |-> tmp[p].cur.tomorrow_midnight])
        /\ now' = t
        /\ Goto(p, "daily_get", arg[p], tmp[p])
    /\ UNCHANGED <<nextId, tracked>>

\* the count to return is read back from the day's aggregate
DailyGet(p) ==
    /\ repo = "VISITOR"
    /\ pc[p] = "daily_get"
    /\ LET daily_item == get_item(table, <<"VISITOR", "DAILY", tmp[p].cur.today>>, <<"COUNT">>)
           count == IF daily_item = None THEN 1
                    ELSE Get(Get(daily_item, "Data", << >>), "count", 1)
       IN  Goto(p, "visitor_total_init", arg[p],
                [NoTmp EXCEPT !.cur = [today |-> tmp[p].cur.today, count |-> count]])
    /\ UNCHANGED <<table, now, nextId, tracked>>

VisitorTotalInitSet(item, last_updated) ==
    SetTopIfNotExists(SetTopIfNotExists(item, "EntityType", "VISITOR_TOTAL"),
                      "Data", [totalCount |-> 0, lastUpdated |-> last_updated])

VisitorTotalInit(p) ==
    /\ repo = "VISITOR"
    /\ pc[p] = "visitor_total_init"
    /\ \E last_updated \in ReadsAfter(now) :
        LET u == update_item(table, <<"VISITOR", "TOTAL">>, <<"COUNT">>,
                     VisitorTotalInitSet(ItemOrKey(table, <<"VISITOR", "TOTAL">>, <<"COUNT">>), last_updated),
                     NoCondition(get_item(table, <<"VISITOR", "TOTAL">>, <<"COUNT">>)))
        IN  /\ table' = u.tbl
            /\ now' = last_updated
            /\ Goto(p, "visitor_total_increment", arg[p], tmp[p])
    /\ UNCHANGED <<nextId, tracked>>

VisitorTotalIncrementSet(item, updated) ==
    SetData(AddOne(item, "totalCount"), "lastUpdated", updated)

VisitorTotalIncrement(p) ==
    /\ repo = "VISITOR"
    /\ pc[p] = "visitor_total_increment"
    /\ \E updated \in ReadsAfter(now) :
        LET u == update_item(table, <<"VISITOR", "TOTAL">>, <<"COUNT">>,
                     VisitorTotalIncrementSet(ItemOrKey(table, <<"VISITOR", "TOTAL">>, <<"COUNT">>), updated),
                     NoCondition(get_item(table, <<"VISITOR", "TOTAL">>, <<"COUNT">>)))
        IN  /\ ~u.raised
            /\ table' = u.tbl
            /\ now' = updated
            /\ Return(p, TrackResult(arg[p], tmp[p].cur.today, tmp[p].cur.count, TRUE))
    /\ UNCHANGED <<nextId, tracked>>

\* ------------------------------------------------------------- tracking: the system
TrackRepos == {"ANALYTICS", "VISITOR"}

InitTrack ==
    /\ table = << >>
    /\ now = 1
    /\ nextId = 1
    /\ repo \in TrackRepos
    /\ pc = [p \in Procs |-> Idle]
    /\ arg = [p \in Procs |-> NoCall]
    /\ tmp = [p \in Procs |-> NoTmp]
    /\ res = [p \in Procs |-> NoResult]
    /\ tracked = {}

\* handler p takes a step of a track call; sessions are the session ids and
\* contents the <<content type, content id>> pairs the calls may name
AnalyticsStep(p, sessions, contents) ==
    \/ \E session_id \in sessions : \E content \in contents :
            TrackViewGet(p, content[1], content[2], session_id)
    \/ ViewRead(p)
    \/ ViewInit(p)
    \/ ViewIncrement(p)
    \/ ViewSetSortKey(p)
    \/ ViewPutMarker(p)
    \/ ViewTotalInit(p)
    \/ ViewTotalIncrement(p)

VisitorStep(p, sessions) ==
    \/ \E session_id \in sessions : TrackVisitorGet(p, session_id)
    \/ VisitorRead(p)
    \/ DailyInit(p)
    \/ DailyIncrement(p)
    \/ VisitorPutMarker(p)
    \/ DailyGet(p)
    \/ VisitorTotalInit(p)
    \/ VisitorTotalIncrement(p)

TrackStep(p, sessions, contents) ==
    \/ AnalyticsStep(p, sessions, contents)
    \/ VisitorStep(p, sessions)

\* one track call at a time
\* every id of one content type and one id of the other
SeqContents == {c \in ContentTypes \X ContentIds : c[1] = "blog" \/ c[2] = 1}

NextTrackSeq == TrackStep(1, Sessions, SeqContents)

SpecTrackSeq == InitTrack /\ [][NextTrackSeq]_vars

\* handlers running in parallel, all tracking one content with one session
OneContent == {<<"blog", 1>>}

OneSession == {1}

NextTrack == \E p \in Procs : TrackStep(p, OneSession, OneContent)

SpecTrack == InitTrack /\ [][NextTrack]_vars

\* handlers running in parallel, handler p tracking with session p only
NextTrackDistinct == \E p \in Procs : TrackStep(p, {p}, OneContent)

SpecTrackDistinct == InitTrack /\ [][NextTrackDistinct]_vars

\* a store call of a track method raises: the method is abandoned where it stands
TrackFail(p) ==
    /\ pc[p] \notin {Idle, "failed"}
    /\ ~arg[p].data.retry
    /\ pc' = [pc EXCEPT ![p] = "failed"]
    /\ tmp' = [tmp EXCEPT ![p] = NoTmp]
    /\ UNCHANGED <<table, now, nextId, arg, res, repo, tracked>>

\* the caller repeats the failed call, which now runs to its end
TrackViewRetry(p) ==
    /\ repo = "ANALYTICS"
    /\ pc[p] = "failed"
    /\ TrackViewBegin(p, arg[p].kind, arg[p].id, arg[p].data.session, TRUE)

TrackVisitorRetry(p) ==
    /\ repo = "VISITOR"
    /\ pc[p] = "failed"
    /\ TrackVisitorBegin(p, arg[p].data.session, TRUE)

NextTrackRetry ==
    \/ TrackStep(1, Sessions, OneContent)
    \/ TrackFail(1)
    \/ TrackViewRetry(1)
    \/ TrackVisitorRetry(1)

SpecTrackRetry == InitTrack /\ [][NextTrackRetry]_vars

\* ------------------------------------------------------------- tracking: claims
AllIdle == \A p \in Procs : pc[p] = Idle

\* handler p returns from a track call in this step
TrackCompletes(p) ==
    \/ ViewRead(p)
    \/ ViewTotalIncrement(p)
    \/ VisitorRead(p)
    \/ VisitorTotalIncrement(p)

\* the stored counter of the subject a completed track call named
CounterOf(t, r) ==
    IF r.op = "track_view" THEN get_view_count(t, r.kind, r.id)
    ELSE get_daily_count(t, r.day)

\* the previous call of handler p and the one it is running name the same
\* subject: the same content, or (for visitors) the same calendar day
SameSubjectAgain(p) ==
    /\ res[p].op = arg[p].op /\ res[p].kind = arg[p].kind /\ res[p].id = arg[p].id
    /\ res'[p].day = res[p].day

\* the sessions that have tracked a content, or visited on a day
SessionsOfContent(content_type, content_id) ==
    {s \in Sessions : <<s, content_type, content_id>> \in tracked}

SessionsOfDay(day) == {s \in Sessions : <<s, day>> \in tracked}

Days == {Day(t) : t \in 1..MaxVisitorClock}

\* C3 as stated: when handlers in parallel have tracked one (session, subject)
\* only, and all have returned, the subject's counter and the grand total are 1.
C3_SameSessionCountedOnce ==
    (AllIdle /\ Cardinality(tracked) = 1) =>
        \A x \in tracked :
            IF repo = "ANALYTICS"
            THEN get_view_count(table, x[2], x[3]) = 1 /\ get_total_views(table) = 1
            ELSE get_daily_count(table, x[2]) = 1 /\ get_total_count(table) = 1

C8_DistinctSessionsAllCounted ==
    AllIdle =>
        IF repo = "ANALYTICS"
        THEN /\ \A c \in OneContent :
                    get_view_count(table, c[1], c[2])
                        = Cardinality(SessionsOfContent(c[1], c[2]))
             /\ get_total_views(table) = Cardinality(tracked)
        ELSE /\ \A d \in Days : get_daily_count(table, d) = Cardinality(SessionsOfDay(d))
             /\ get_total_count(table) = Cardinality(tracked)

\* both handlers went down the first-sight path at the same time and the
\* content now has two views
C8_Witness ==
    /\ AllIdle /\ repo = "ANALYTICS"
    /\ \A p \in Procs : res[p].op = "track_view" /\ res[p].counted /\ res[p].session = p
    /\ get_total_views(table) = NumProcs
    /\ \E p \in Procs : res[p].value = 1

\* C9 as stated: with a store failure in a track call followed by the caller's
\* retry, whenever the caller is done every tracked (session, subject) has been
\* counted once in the subject's counter and once in the grand total.
C9_RetryCountsOnce ==
    (pc[1] = Idle) =>
        IF repo = "ANALYTICS"
        THEN /\ \A c \in OneContent :
                    get_view_count(table, c[1], c[2])
                        = Cardinality(SessionsOfContent(c[1], c[2]))
             /\ get_total_views(table) = Cardinality(tracked)
        ELSE /\ \A d \in Days : get_daily_count(table, d) = Cardinality(SessionsOfDay(d))
             /\ get_total_count(table) = Cardinality(tracked)

\* C10: with one track call at a time and no expiry, between calls
\* get_total_views is the number of distinct (session, content type, content
\* id) triples tracked and get_total_count the number of distinct (session,
\* day) pairs.
C10_TotalsCountDistinct ==
    (pc[1] = Idle) =>
        /\ repo = "ANALYTICS" => get_total_views(table) = Cardinality(tracked)
        /\ repo = "VISITOR" => get_total_count(table) = Cardinality(tracked)

\* a repeated track has returned and the total stands at the three triples
C10_Witness ==
    /\ pc[1] = Idle /\ repo = "ANALYTICS"
    /\ res[1].op = "track_view" /\ ~res[1].counted
    /\ Cardinality(tracked) = 3 /\ get_total_views(table) = 3

\* --------------------------------------------------- category aggregate failures
\* the positions of a handler inside _increment_category_count and
\* _decrement_category_count
CatLabels == {"cat_inc_init", "cat_inc_add", "cat_dec"}

\* a category store call whose error reaches the caller of create/update/delete
CategoryStoreFailsPropagates(p) ==
    /\ repo = "BLOG"
    /\ pc[p] \in CatLabels
    /\ Return(p, Result("raised", "BLOG", arg[p].id, FALSE))
    /\ UNCHANGED <<table, now, nextId, tracked>>

\* the store call of _increment_category_count or _decrement_category_count
\* raises: the except clause of the method swallows the error, the method
\* returns (the second call of _increment_category_count is skipped) and the
\* caller goes on
CategoryStoreFails(p) ==
    /\ repo = "BLOG"
    /\ pc[p] \in CatLabels
    /\ IF pc[p] = "cat_dec" /\ tmp[p].after # ""
       THEN Goto(p, "cat_inc_init", arg[p],
                 [tmp[p] EXCEPT !.cat = tmp[p].after, !.after = ""])
       ELSE Return(p, tmp[p].out)
    /\ UNCHANGED <<table, now, nextId, tracked>>

InitBlog == InitContent /\ repo = "BLOG"

CatInputs == Inputs(Ids, {"t1"}, {"Backend", "DevOps"}, {})

\* a step of create, update or delete of a post, category bookkeeping included
BlogWriteStep(p, in) ==
    \/ \E data \in ValidBlogFields(in.titles, in.categories) :
            nextId \in in.ids /\ BlogCreate(p, data)
    \/ \E id \in in.ids : \E data \in BlogUpdateFields(in.titles, in.categories) :
            BlogUpdateGet(p, id, data)
    \/ BlogUpdateWrite(p)
    \/ \E id \in in.ids : BlogDeleteGet(p, id)
    \/ BlogDeleteWrite(p)
    \/ IncrementCategoryInit(p)
    \/ IncrementCategoryAdd(p)
    \/ DecrementCategory(p)

\* one request at a time on the blog repository, any category store call may fail
NextCatFail ==
    \/ BlogWriteStep(1, CatInputs)
    \/ CategoryStoreFails(1)

SpecCatFail == InitBlog /\ [][NextCatFail]_vars

\* C11: a create, update or delete of a post that reached its category
\* bookkeeping returns its normal result whether or not a category store call
\* raised: create returns the post and the post is stored, delete returns True
\* and the post is gone, update returns the post with the category it was given;
\* the step in which a category store call raises changes nothing in the table
\* and never ends the call with an error.
C11_AggregateErrorsSwallowed ==
    [][\A p \in Procs :
        /\ CategoryStoreFails(p) => table' = table /\ res'[p].op # "raised"
        /\ (pc[p] \in CatLabels /\ pc'[p] = Idle) =>
            /\ res'[p].op = arg[p].op
            /\ res'[p].id = arg[p].id
            /\ res'[p].ok
            /\ arg[p].op = "create" => blog_get_by_id(table', arg[p].id) # None
            /\ arg[p].op = "delete" => blog_get_by_id(table', arg[p].id) = None
            /\ arg[p].op = "update" =>
                /\ blog_get_by_id(table', arg[p].id) # None
                /\ blog_get_by_id(table', arg[p].id).category = arg[p].data.category]_vars

\* a create with a category has returned the stored post although the count of
\* its category was never written
C11_Witness ==
    /\ pc[1] = Idle
    /\ res[1].op = "create"
    /\ res[1].ok
    /\ blog_get_by_id(table, res[1].id) # None
    /\ blog_get_by_id(table, res[1].id).category = "Backend"
    /\ get_item(table, <<"BLOG", "CATEGORY", "Backend">>, <<"COUNT">>) = None

\* --------------------------------------------------- grand-total failures
\* the positions of a handler at the two store calls on the grand total
TotalLabels ==
    {"view_total_init", "view_total_increment",
     "visitor_total_init", "visitor_total_increment"}

\* a store call on ANALYTICS#TOTAL or VISITOR#TOTAL raises: update_item
\* re-raises the ClientError and track_view / track_visitor have no handler
\* around the call, so the error leaves the method in place of the count
TotalStoreFails(p) ==
    /\ repo \in TrackRepos
    /\ pc[p] \in TotalLabels
    /\ Return(p, [Result("raised", arg[p].kind, arg[p].id, FALSE)
                    EXCEPT !.session = arg[p].data.session])
    /\ UNCHANGED <<table, now, nextId, tracked>>

\* one track call at a time, any store call on the grand total may fail
NextTrackTotalFail ==
    \/ TrackStep(1, Sessions, OneContent)
    \/ TotalStoreFails(1)

SpecTrackTotalFail == InitTrack /\ [][NextTrackTotalFail]_vars

\* C12 as stated: a track call that has reached the store calls on the grand
\* total ends by returning the count of its subject, whether or not one of
\* these store calls raised.
C12_TotalFailureNotPropagated ==
    [][\A p \in Procs :
        (pc[p] \in TotalLabels /\ pc'[p] = Idle) =>
            /\ res'[p].op = arg[p].op
            /\ res'[p].value = CounterOf(table', res'[p])]_vars

\* --------------------------------------------------- category aggregates
\* get_categories: a scan filtered on PK begins_with BLOG#CATEGORY# and
\* SK = COUNT, each item reported as its name and its Data.count (0 if absent)
get_categories(t) ==
    {[name |-> it.PK[3],
      count |-> Get(Get(it, "Data", << >>), "count", 0)] :
        it \in {x \in Items(t) : /\ Len(x.PK) = 3
                                 /\ x.PK[1] = "BLOG" /\ x.PK[2] = "CATEGORY"
                                 /\ x.SK = <<"COUNT">>}}

\* the stored posts assigned to a category
PostsIn(t, category) ==
    {it \in EntityItems(t) : it.PK[1] = "BLOG" /\ it.Data.category = category}

\* one create, update or delete at a time, no store call fails
NextCatSeq == BlogWriteStep(1, CatInputs)

SpecCatSeq == InitBlog /\ [][NextCatSeq]_vars

\* C13: between the calls of a sequential series of post create, update and
\* delete, every category that get_categories reports has the count of the
\* stored posts of that category, and every category that has a stored post is
\* reported.
C13_CategoryCountsMatchPosts ==
    pc[1] = Idle =>
        /\ \A r \in get_categories(table) :
                r.count = Cardinality(PostsIn(table, r.name))
        /\ \A c \in CatInputs.categories :
                PostsIn(table, c) # {} => \E r \in get_categories(table) : r.name = c

\* after creates, a change of category and a delete: one post left in DevOps,
\* none in Backend, and both categories reported
C13_Witness ==
    /\ pc[1] = Idle
    /\ res[1].op = "delete" /\ res[1].ok
    /\ [name |-> "Backend", count |-> 0] \in get_categories(table)
    /\ [name |-> "DevOps", count |-> 1] \in get_categories(table)
    /\ Cardinality(PostsIn(table, "DevOps")) = 1

\* C14 as stated: in every reachable state the count of every category
\* aggregate is zero or more.
C14_CountNeverNegative == \A r \in get_categories(table) : r.count >= 0

\* --------------------------------------------------- calls on an id not stored
\* handler p is called with update(id, ...), publish(id) or unpublish(id) in
\* this step
UpdateCalled(p, id) ==
    \/ \E data \in BlogUpdateFields(SeqInputs.titles, SeqInputs.categories) :
            BlogUpdateGet(p, id, data)
    \/ \E data \in ProjectUpdateFields(SeqInputs.titles) : ProjectUpdate(p, id, data)
    \/ \E data \in CertUpdateFields(SeqInputs.titles, SeqInputs.dates) : CertUpdate(p, id, data)

PublishCalled(p, id) ==
    \/ BlogPublish(p, id)
    \/ ProjectPublish(p, id)
    \/ CertPublishGet(p, id)

UnpublishCalled(p, id) ==
    \/ BlogUnpublishGet(p, id)
    \/ ProjectUnpublish(p, id)
    \/ CertUnpublishGet(p, id)

\* C15: update, publish and unpublish called with an id that has no stored
\* record return in that step, return None, and leave the table as it was.
C15_AbsentIdLeavesTableUnchanged ==
    [][\A id \in Ids :
        (/\ Entity(table, repo, id) = None
         /\ UpdateCalled(1, id) \/ PublishCalled(1, id) \/ UnpublishCalled(1, id)) =>
            /\ pc'[1] = Idle
            /\ res'[1].id = id
            /\ ~res'[1].ok
            /\ table' = table]_vars

\* an update, publish or unpublish has returned None for an id that is not
\* stored, while another record is
C15_Witness ==
    /\ pc[1] = Idle
    /\ res[1].op \in {"update", "publish", "unpublish"}
    /\ ~res[1].ok
    /\ Entity(table, repo, res[1].id) = None
    /\ \E id \in Ids : Entity(table, repo, id) # None

\* --------------------------------------------------- delete
\* handler p runs the store call of delete(id) that decides its result in
\* this step: the conditional delete, or for a post the read that finds nothing
DeleteDecides(p, id) ==
    \/ BlogDeleteGet(p, id) /\ pc'[p] = Idle
    \/ BlogDeleteWrite(p) /\ arg[p].id = id
    \/ ProjectDelete(p, id)
    \/ CertDelete(p, id)

\* handler p returns from delete(id) in this step
DeleteCompletes(p, id) ==
    \/ DeleteDecides(p, id) /\ pc'[p] = Idle
    \/ DecrementCategory(p) /\ arg[p].op = "delete" /\ arg[p].id = id

\* C16: delete(id) returns True exactly when the record was stored when its
\* store call ran; when it returns get_by_id(id) is None; and a delete(id) that
\* follows a returned delete(id) returns False.
C16_DeleteReportsExistence ==
    [][\A id \in Ids :
        /\ DeleteDecides(1, id) =>
            /\ pc'[1] = Idle => res'[1].ok = (Entity(table, repo, id) # None)
            /\ pc'[1] # Idle => tmp'[1].out.ok = (Entity(table, repo, id) # None)
            /\ (pc[1] = Idle /\ res[1].op = "delete" /\ res[1].id = id) =>
                    pc'[1] = Idle /\ ~res'[1].ok
        /\ DeleteCompletes(1, id) =>
            /\ res'[1].op = "delete" /\ res'[1].id = id
            /\ pc[1] = "cat_dec" => res'[1] = tmp[1].out
            /\ get_by_id(table', repo, id) = None]_vars

\* a delete has returned False for an id that was created and deleted before
C16_Witness ==
    /\ pc[1] = Idle
    /\ res[1].op = "delete"
    /\ ~res[1].ok
    /\ res[1].id < nextId
    /\ get_by_id(table, repo, res[1].id) = None

\* --------------------------------------------------- list: all statuses, pages
\* the key of an item in GSI1: what LastEvaluatedKey and ExclusiveStartKey hold
IndexKey(item) ==
    [PK |-> item.PK, SK |-> item.SK, GSI1PK |-> item.GSI1PK, GSI1SK |-> item.GSI1SK]

\* query on GSI1 with GSI1PK = :gsi1pk, Limit and ExclusiveStartKey: the
\* matching items after the start key in index order, cut at Limit;
\* LastEvaluatedKey is the key of the last item when Limit stopped the query
query_from(t, gsi1pk, scan_index_forward, limit, exclusive_start_key) ==
    LET matching == {it \in Items(t) :
                        HasAttr(it, "GSI1PK") /\ HasAttr(it, "GSI1SK") /\ it.GSI1PK = gsi1pk}
        rest == IF exclusive_start_key = None THEN matching
                ELSE {it \in matching :
                        IF scan_index_forward THEN IndexBefore(exclusive_start_key, it)
                        ELSE IndexBefore(it, exclusive_start_key)}
        ordered == InOrder(rest, scan_index_forward)
    IN  [Items |-> FirstN(ordered, limit),
         LastEvaluatedKey |-> IF limit # Null /\ Len(ordered) >= limit
                              THEN IndexKey(ordered[limit]) ELSE None]

\* query with the key condition begins_with(GSI1PK, :gsi1pk): the store takes
\* only an equality on the partition key of the index and rejects the request;
\* query re-raises the ClientError
query_begins_with(t, prefix, scan_index_forward, limit, exclusive_start_key) == Invalid

\* what a list method gives its caller: the records, the key of the next page,
\* or an exception
ListResult(items, last_evaluated_key) ==
    [raised |-> FALSE, items |-> items, lastEvaluatedKey |-> last_evaluated_key]

ListRaised == [raised |-> TRUE, items |-> << >>, lastEvaluatedKey |-> None]

\* the tail of list_posts / list_projects / list_certifications: from_item on
\* result['Items'], result.get('LastEvaluatedKey')
ListOf(result) ==
    IF result = Invalid THEN ListRaised
    ELSE ListResult([i \in 1..Len(result.Items) |-> from_item(result.Items[i])],
                    result.LastEvaluatedKey)

\* list_posts with every parameter but category
list_posts_from(t, status, limit, last_evaluated_key) ==
    ListOf(IF status # Unset
           THEN query_from(t, <<"BLOG", "STATUS", status>>, FALSE, limit, last_evaluated_key)
           ELSE query_begins_with(t, <<"BLOG", "STATUS">>, FALSE, limit, last_evaluated_key))

\* list_projects with every parameter but featured
list_projects_from(t, status, limit, last_evaluated_key) ==
    ListOf(IF status # Unset
           THEN query_from(t, <<"PROJECT", "STATUS", status>>, FALSE, limit, last_evaluated_key)
           ELSE query_begins_with(t, <<"PROJECT", "STATUS">>, FALSE, limit, last_evaluated_key))

\* list_certifications with every parameter but featured: with a status and no
\* type the two queries take no start key and the result carries no key
list_certifications_from(t, status, cert_type, limit, last_evaluated_key) ==
    IF status # Unset /\ cert_type = Unset
    THEN LET all_items == query_from(t, <<"CERT", "STATUS", status, "certification">>,
                                     FALSE, limit, None).Items
                          \o query_from(t, <<"CERT", "STATUS", status, "course">>,
                                        FALSE, limit, None).Items
             items == FirstN(SortByDateEarnedDesc(all_items), limit)
         IN  ListResult([i \in 1..Len(items) |-> from_item(items[i])], None)
    ELSE IF status # Unset /\ cert_type # Unset
    THEN ListOf(query_from(t, <<"CERT", "STATUS", status, cert_type>>, FALSE, limit,
                           last_evaluated_key))
    ELSE ListResult(<< >>, None)

\* list(status, limit, next_page_token) of a kind
list_from(t, kind, status, limit, last_evaluated_key) ==
    CASE kind = "BLOG" -> list_posts_from(t, status, limit, last_evaluated_key)
      [] kind = "PROJECT" -> list_projects_from(t, status, limit, last_evaluated_key)
      [] kind = "CERT" -> list_certifications_from(t, status, Unset, limit, last_evaluated_key)

\* C17 as stated: every stored entity of the kind, whatever its status, appears
\* in the page that list with no status returns (the limit is no less than the
\* number of entities).
C17_ListWithoutStatusReturnsAll ==
    LET page == list_from(table, repo, Unset, ListLimit, None)
    IN  \A it \in EntityItems(table) :
            /\ ~page.raised
            /\ \E i \in 1..Len(page.items) : page.items[i].id = it.Data.id

\* the limits a caller pages with
MaxPageLimit == 2

PageLimits == 1..MaxPageLimit

\* the records a caller collects who calls list(status, limit) and passes each
\* returned key back until none is returned (at most fuel further calls)
RECURSIVE Paginate(_, _, _, _, _, _)
Paginate(t, kind, status, limit, last_evaluated_key, fuel) ==
    LET page == list_from(t, kind, status, limit, last_evaluated_key)
    IN  IF page.raised THEN << >>
        ELSE IF page.lastEvaluatedKey = None \/ fuel = 0 THEN page.items
        ELSE page.items \o Paginate(t, kind, status, limit, page.lastEvaluatedKey, fuel - 1)

\* C18 as stated: for every status and limit, paging through list(status, limit)
\* on an unchanging table yields every stored entity of that status exactly once.
C18_PaginationComplete ==
    \A status \in Statuses : \A limit \in PageLimits :
        LET got == Paginate(table, repo, status, limit, None, MaxIds + 1)
        IN  \A it \in {x \in EntityItems(table) : x.Status = status} :
                Cardinality({i \in 1..Len(got) : got[i].id = it.Data.id}) = 1

\* --------------------------------------------------- ordering of lists
\* a step of create, update, publish or unpublish of a post
BlogTransitionStep(p, in) ==
    \/ \E data \in ValidBlogFields(in.titles, in.categories) :
            nextId \in in.ids /\ BlogCreate(p, data)
    \/ \E id \in in.ids : \E data \in [title : in.titles] : BlogUpdateGet(p, id, data)
    \/ BlogUpdateWrite(p)
    \/ \E id \in in.ids : BlogPublish(p, id)
    \/ \E id \in in.ids : BlogUnpublishGet(p, id)
    \/ BlogUnpublishWrite(p)

\* posts without a category, so that no category bookkeeping runs
TransitionInputs == Inputs(Ids, {"t1"}, {}, {})

\* posts are created, updated, published and unpublished by handlers in
\* parallel; projects and certifications by one request at a time
NextTransitions ==
    \/ \E p \in Procs : BlogTransitionStep(p, TransitionInputs)
    \/ ProjectStep(1, SeqInputs)
    \/ CertStep(1, SeqInputs)

SpecTransitions == Init /\ [][NextTransitions]_vars

\* the ordering token of an entity as its record shows it: publishedAt or
\* createdAt for a post, createdAt for a project, dateEarned for a certification
OrderingToken(kind, record) ==
    CASE kind = "BLOG" ->
            IF record.publishedAt # Null THEN record.publishedAt ELSE record.createdAt
      [] kind = "PROJECT" -> record.createdAt
      [] kind = "CERT" -> record.dateEarned

\* C19: in every state reached by create, update, publish and unpublish (of
\* posts: by handlers in parallel), the index sort key of every stored post is
\* BLOG# followed by its publishedAt if it is PUBLISHED and by its createdAt if
\* it is DRAFT, and list(status) returns the records of every kind with the
\* newest ordering token first.
C19_NewestFirstAndSortKey ==
    /\ repo = "BLOG" =>
        \A it \in EntityItems(table) :
            it.GSI1SK = <<"BLOG", IF it.Status = "PUBLISHED" THEN it.Data.publishedAt
                                  ELSE it.Data.createdAt>>
    /\ \A status \in Statuses :
        LET page == list(table, repo, status, ListLimit)
        IN  \A i \in 1..Len(page) : \A j \in 1..Len(page) :
                i < j => OrderingToken(repo, page[i]) >= OrderingToken(repo, page[j])

\* two posts created at the same instant are listed as PUBLISHED, the one
\* published later first, after an unpublish has succeeded
C19_Witness ==
    LET page == list_posts(table, "PUBLISHED", ListLimit)
    IN  /\ repo = "BLOG"
        /\ Len(page) = 2
        /\ page[1].publishedAt > page[2].publishedAt
        /\ page[1].createdAt = page[2].createdAt
        /\ \E p \in Procs : res[p].op = "unpublish" /\ res[p].ok

\* --------------------------------------------------- publishedAt
\* C20 as stated: in every reachable state, every stored entity of every kind
\* has a publishedAt that is not null exactly when its Status is PUBLISHED.
C20_PublishedAtIffPublished ==
    \A it \in EntityItems(table) :
        (Get(it.Data, "publishedAt", Null) # Null) <=> (it.Status = "PUBLISHED")

\* --------------------------------------------------- the view-count sort key
\* the stored view aggregates
ViewItems(t) ==
    {it \in Items(t) : it.PK[1] = "ANALYTICS" /\ it.SK = <<"VIEWS">> /\ Len(it.PK) = 3}

\* C22 as stated: whenever no track_view call is in progress, the index sort key
\* of every view aggregate is ANALYTICS#VIEWS# followed by its viewCount padded
\* to ten digits, also after track_view calls that ran interleaved.
C22_SortKeyIsPaddedCount ==
    (repo = "ANALYTICS" /\ AllIdle) =>
        \A it \in ViewItems(table) :
            /\ HasAttr(it, "GSI1SK")
            /\ it.GSI1SK = <<"ANALYTICS", "VIEWS", zfill(Str(it.Data.viewCount), PadWidth)>>

\* --------------------------------------------------- get_top_content
\* the order of the view aggregates in one partition of GSI1: by the digits of
\* the sort key compared as text, equal sort keys by the primary key
ViewIndexBefore(x, y) ==
    \/ IntSeqLess(x.GSI1SK[3], y.GSI1SK[3])
    \/ x.GSI1SK[3] = y.GSI1SK[3] /\ x.PK[3] < y.PK[3]

RECURSIVE ViewsInOrder(_, _)
ViewsInOrder(S, forward) ==
    IF S = {} THEN << >>
    ELSE LET first == CHOOSE x \in S : \A y \in S \ {x} :
                        IF forward THEN ViewIndexBefore(x, y) ELSE ViewIndexBefore(y, x)
         IN  <<first>> \o ViewsInOrder(S \ {first}, forward)

\* query on GSI1 with GSI1PK = ANALYTICS#<content type>, cut at Limit
query_views(t, content_type, scan_index_forward, limit) ==
    LET matching == {it \in Items(t) :
                        /\ HasAttr(it, "GSI1PK") /\ HasAttr(it, "GSI1SK")
                        /\ it.GSI1PK = <<"ANALYTICS", content_type>>}
    IN  FirstN(ViewsInOrder(matching, scan_index_forward), limit)

\* get_top_content, the list of one content type: contentId and views of the
\* items of a descending query
get_top_content(t, content_type, limit) ==
    LET items == query_views(t, content_type, FALSE, limit)
    IN  [i \in 1..Len(items) |->
            [contentId |-> Get(Get(items[i], "Data", << >>), "contentId", Null),
             views |-> Get(Get(items[i], "Data", << >>), "viewCount", 0)]]

\* the sessions of a study of get_top_content
MaxTopSessions == 3

\* the view counts a content may already have when the study starts
TopCounts == {2, 5, 100}

\* a view aggregate as track_view leaves it after count views, and the grand
\* total that goes with it
ViewAggregate(content_type, content_id, count, at) ==
    [PK |-> <<"ANALYTICS", content_type, content_id>>, SK |-> <<"VIEWS">>,
     GSI1PK |-> <<"ANALYTICS", content_type>>,
     GSI1SK |-> <<"ANALYTICS", "VIEWS", zfill(Str(count), PadWidth)>>,
     EntityType |-> "ANALYTICS_VIEW",
     Data |-> [contentId |-> content_id, contentType |-> content_type,
               viewCount |-> count, lastViewed |-> at]]

TotalAggregate(count, at) ==
    [PK |-> <<"ANALYTICS", "TOTAL">>, SK |-> <<"VIEWS">>,
     EntityType |-> "ANALYTICS_TOTAL",
     Data |-> [totalViews |-> count, lastUpdated |-> at]]

\* blog 2 has been viewed before by sessions whose markers have expired
InitTop ==
    /\ \E count \in TopCounts :
        table = put_item(put_item(<< >>, ViewAggregate("blog", 2, count, 1)),
                         TotalAggregate(count, 1))
    /\ now = 1
    /\ nextId = 1
    /\ repo = "ANALYTICS"
    /\ pc = [p \in Procs |-> Idle]
    /\ arg = [p \in Procs |-> NoCall]
    /\ tmp = [p \in Procs |-> NoTmp]
    /\ res = [p \in Procs |-> NoResult]
    /\ tracked = {}

\* handler 1 tracks blog 1 with session 1, handler 2 with the other sessions
NextTop ==
    \/ AnalyticsStep(1, {1}, OneContent)
    \/ AnalyticsStep(2, 2..MaxTopSessions, OneContent)

SpecTop == InitTop /\ [][NextTop]_vars

\* C21 as stated: whenever no track_view call is in progress, for every
\* content type and limit, get_top_content returns at most limit entries, in
\* non-increasing order of views, and no content of the type that is left out
\* has more views than one that is returned.
C21_TopContentMostViewedFirst ==
    AllIdle => \A content_type \in ContentTypes : \A limit \in 1..MaxContentIds :
        LET top == get_top_content(table, content_type, limit)
            returned == {top[i].contentId : i \in 1..Len(top)}
        IN  /\ Len(top) <= limit
            /\ \A i \in 1..Len(top) : \A j \in 1..Len(top) :
                    i < j => top[i].views >= top[j].views
            /\ \A it \in ViewItems(table) :
                    (it.PK[2] = content_type /\ it.PK[3] \notin returned) =>
                        \A i \in 1..Len(top) : top[i].views >= it.Data.viewCount

\* ------------------------------------------------------------- visitor trends
\* the longest window of days a trends call asks for
MaxTrendDays == 3

\* the keys one batch_get_item request carries
BatchSize == 100

\* batch_get_items: the keys go to the store in requests of BatchSize keys;
\* a request that names one key twice is rejected by the store, and a key
\* without an item contributes nothing
RECURSIVE batch_get_items(_, _)
batch_get_items(t, keys) ==
    IF keys = << >> THEN [raised |-> FALSE, items |-> {}]
    ELSE LET batch_keys == FirstN(keys, BatchSize)
             named == {batch_keys[i] : i \in 1..Len(batch_keys)}
             later == batch_get_items(t, SubSeq(keys, Len(batch_keys) + 1, Len(keys)))
         IN  IF Cardinality(named) < Len(batch_keys) \/ later.raised
             THEN [raised |-> TRUE, items |-> {}]
             ELSE [raised |-> FALSE,
                   items |-> {t[k] : k \in named \cap DOMAIN t} \cup later.items]

\* count_map.get(date, 0) of the map from Data.date to Data.count
count_map_get(items, date) ==
    LET dated == {it \in items : Get(Get(it, "Data", << >>), "date", Null) = date}
    IN  IF dated = {} THEN 0
        ELSE Get(Get(CHOOSE it \in dated : TRUE, "Data", << >>), "count", 0)

\* the list get_daily_trends builds from the dates it generated, newest first,
\* and the items the store returned: oldest first
daily_trends(dates, items) ==
    [k \in 1..Len(dates) |->
        [date |-> dates[Len(dates) + 1 - k],
         visitors |-> count_map_get(items, dates[Len(dates) + 1 - k])]]

\* since is the instant the call was made at
TrendsCall(op, n) == Call(op, "VISITOR", Null, [n |-> n, since |-> now])

\* the outcome of a trends call: ok is FALSE when the call raised
TrendsResult(call, ok, trends) ==
    [Result(call.op, call.kind, Null, ok) EXCEPT !.value = trends]

\* get_daily_trends(days) is called
DailyTrendsBegin(p, days) ==
    /\ repo = "VISITOR"
    /\ pc[p] = Idle
    /\ Goto(p, "trend_dates", TrendsCall("get_daily_trends", days),
            [NoTmp EXCEPT !.cur = [dates |-> << >>]])
    /\ UNCHANGED <<table, now, nextId, tracked>>

\* one turn of the loop over range(days): the clock is read and the day i days
\* before the day read is appended
DailyTrendsDate(p) ==
    /\ repo = "VISITOR"
    /\ pc[p] = "trend_dates"
    /\ Len(tmp[p].cur.dates) < arg[p].data.n
    /\ \E t \in ReadsAfter(now) :
        LET i == Len(tmp[p].cur.dates)
        IN  /\ now' = t
            /\ Goto(p, "trend_dates", arg[p],
                    [tmp[p] EXCEPT !.cur = [dates |-> Append(tmp[p].cur.dates, Day(t) - i)]])
    /\ UNCHANGED <<table, nextId, tracked>>

\* the aggregates of the dates are fetched in one batch and the list is built
DailyTrendsGet(p) ==
    /\ repo = "VISITOR"
    /\ pc[p] = "trend_dates"
    /\ Len(tmp[p].cur.dates) = arg[p].data.n
    /\ LET dates == tmp[p].cur.dates
           keys == [i \in 1..Len(dates) |-> Key(<<"VISITOR", "DAILY", dates[i]>>, <<"COUNT">>)]
           got == batch_get_items(table, keys)
       IN  IF got.raised
           THEN Return(p, TrendsResult(arg[p], FALSE, << >>))
           ELSE Return(p, TrendsResult(arg[p], TRUE, daily_trends(dates, got.items)))
    /\ UNCHANGED <<table, now, nextId, tracked>>

DailyTrendsStep(p, windows) ==
    \/ \E days \in windows : DailyTrendsBegin(p, days)
    \/ DailyTrendsDate(p)
    \/ DailyTrendsGet(p)

InitTrends == InitTrack /\ repo = "VISITOR"

\* one handler tracks visitors while another asks for the daily trends
NextTrends ==
    \/ VisitorStep(1, Sessions)
    \/ DailyTrendsStep(2, 1..MaxTrendDays)

SpecTrends == InitTrends /\ [][NextTrends]_vars

\* the list of days entries, one per consecutive day ending with today, oldest
\* first, each with the count stored in t for its day and 0 for a day without
\* an aggregate
TrendsEndingOn(t, today, days) ==
    [k \in 1..days |->
        [date |-> today - days + k, visitors |-> get_daily_count(t, today - days + k)]]

\* C23 as stated: a get_daily_trends(days) call returns exactly days entries,
\* one per consecutive calendar day ending today, oldest first, each with the
\* count stored for its day, or 0 when the day has no aggregate; today is a day
\* the clock showed while the call ran.
C23_DailyTrendsOnePerDay ==
    [][\A p \in Procs : DailyTrendsGet(p) =>
            /\ res'[p].ok
            /\ \E today \in Day(arg[p].data.since)..Day(now) :
                    res'[p].value = TrendsEndingOn(table, today, arg[p].data.n)]_vars

\* ------------------------------------------------------------- monthly trends
\* the calendar: day 1 is January 1 of EpochYear
EpochYear == 2023

\* the longest window of months a trends call asks for
MaxMonths == 3

IsLeap(year) == year % 4 = 0 /\ (year % 100 # 0 \/ year % 400 = 0)

DaysInMonth(year, month) ==
    IF month = 2 THEN (IF IsLeap(year) THEN 29 ELSE 28)
    ELSE IF month \in {4, 6, 9, 11} THEN 30 ELSE 31

DaysInYear(year) == IF IsLeap(year) THEN 366 ELSE 365

\* the date that is the n-th day counted from the first of the month
RECURSIVE DateFrom(_, _, _)
DateFrom(n, year, month) ==
    IF n <= DaysInMonth(year, month) THEN [year |-> year, month |-> month, day |-> n]
    ELSE IF month = 12 THEN DateFrom(n - DaysInMonth(year, month), year + 1, 1)
    ELSE DateFrom(n - DaysInMonth(year, month), year, month + 1)

\* strftime("%Y-%m") of a day: its year and month
strftime_year_month(date) ==
    LET d == DateFrom(date, EpochYear, 1) IN <<d.year, d.month>>

\* scan with PK begins_with 'VISITOR#DAILY#{year_month}' and SK = 'COUNT'
scan_daily_month(t, year_month) ==
    {it \in Items(t) :
        /\ Len(it.PK) = 3 /\ it.PK[1] = "VISITOR" /\ it.PK[2] = "DAILY"
        /\ strftime_year_month(it.PK[3]) = year_month
        /\ it.SK = <<"COUNT">>}

\* sum(item.get('Data', {}).get('count', 0) for item in result['Items'])
RECURSIVE sum_counts(_)
sum_counts(items) ==
    IF items = {} THEN 0
    ELSE LET it == CHOOSE x \in items : TRUE
         IN  Get(Get(it, "Data", << >>), "count", 0) + sum_counts(items \ {it})

\* get_monthly_trends with the clock showing day today: turn i of the loop takes
\* the month of the day 30 * i days back and puts its entry at the front
get_monthly_trends(t, today, months) ==
    [k \in 1..months |->
        LET i == months - k
            year_month == strftime_year_month(today - 30 * i)
        IN  [month |-> year_month, visitors |-> sum_counts(scan_daily_month(t, year_month))]]

\* a day's aggregate as track_visitor leaves it after count first visits
DailyAggregate(date, count) ==
    [PK |-> <<"VISITOR", "DAILY", date>>, SK |-> <<"COUNT">>,
     EntityType |-> "VISITOR_DAILY",
     Data |-> [date |-> date, count |-> count]]

\* the days of the year after EpochYear
StudyDays == (DaysInYear(EpochYear) + 1)..(DaysInYear(EpochYear) + DaysInYear(EpochYear + 1))

\* how many days before today the days with visits lie
VisitOffsets == {0, 1, 30, 31}

\* the clock shows the first instant of a day of the study; visits were counted
\* on some of the days before it
InitMonthly ==
    /\ \E today \in StudyDays : now = (today - 1) * TicksPerDay + 1
    /\ \E visited \in SUBSET VisitOffsets : \E count \in 1..MaxCount :
        table = [k \in {Key(<<"VISITOR", "DAILY", Day(now) - o>>, <<"COUNT">>) : o \in visited} |->
                    DailyAggregate(k[1][3], count)]
    /\ nextId = 1
    /\ repo = "VISITOR"
    /\ pc = [p \in Procs |-> Idle]
    /\ arg = [p \in Procs |-> NoCall]
    /\ tmp = [p \in Procs |-> NoTmp]
    /\ res = [p \in Procs |-> NoResult]
    /\ tracked = {}

\* get_monthly_trends(months), with no other call running and the clock at rest
MonthlyTrends(p, months) ==
    /\ repo = "VISITOR"
    /\ pc[p] = Idle
    /\ Return(p, TrendsResult(TrendsCall("get_monthly_trends", months), TRUE,
                              get_monthly_trends(table, Day(now), months)))
    /\ UNCHANGED <<table, now, nextId, tracked>>

NextMonthly == \E months \in 1..MaxMonths : MonthlyTrends(1, months)

SpecMonthly == InitMonthly /\ [][NextMonthly]_vars

\* the month that lies back months before the month year_month
MonthBefore(year_month, back) ==
    LET index == year_month[1] * 12 + (year_month[2] - 1) - back
    IN  <<index \div 12, (index % 12) + 1>>

\* C24 as stated: whatever the current date, get_monthly_trends(months) returns
\* exactly months entries, the k-th for the calendar month months - k months
\* before the current month (chronological, none repeated, none skipped), each
\* with the sum of the daily counts stored for that month, 0 if there are none.
C24_MonthlyTrendsOnePerMonth ==
    [][\A months \in 1..MaxMonths : MonthlyTrends(1, months) =>
            res'[1].value =
                [k \in 1..months |->
                    LET year_month == MonthBefore(strftime_year_month(Day(now)), months - k)
                    IN  [month |-> year_month,
                         visitors |-> sum_counts(scan_daily_month(table, year_month))]]]_vars

\* ------------------------------------------------------------- read time
\* a text of so many words of so many letters, each followed by a gap of spaces
Text(words, letters, gap) ==
    [i \in 1..(words * (letters + gap)) |->
        IF (i - 1) % (letters + gap) < letters THEN "w" ELSE " "]

\* the contents posts are created with, and the ones updates supply
CreateTexts == {Text(10, 2, 1), <<"\n">> \o Text(400, 1, 1)}

UpdateTexts == {Text(199, 1, 1), <<"\t">> \o Text(405, 1, 2)}

BlogContentStep(p, ids, titles) ==
    \/ \E data \in [title : titles, content : CreateTexts] :
            nextId \in ids /\ BlogCreate(p, data)
    \/ \E id \in ids : \E data \in [content : UpdateTexts] \cup [title : titles] :
            BlogUpdateGet(p, id, data)
    \/ BlogUpdateWrite(p)

\* posts are created and their content or title updated by handlers in parallel
NextReadTime == \E p \in Procs : BlogContentStep(p, 1..ConcIds, {"t1"})

SpecReadTime == InitBlog /\ [][NextReadTime]_vars

\* the number of whitespace-separated words of a text: one for each character
\* that ends a run without whitespace
WordsOf(content) ==
    Cardinality({i \in 1..Len(content) :
                    /\ content[i] \notin Whitespace
                    /\ (i = Len(content) \/ content[i + 1] \in Whitespace)})

\* C25: every stored post's readTime is max(1, floor(words / 200)) of the words
\* of its current content, after create and after updates of the content.
C25_ReadTimeFollowsContent ==
    \A it \in EntityItems(table) :
        LET minutes == WordsOf(it.Data.content) \div 200
        IN  it.Data.readTime = IF minutes > 1 THEN minutes ELSE 1

\* a post whose content an update has replaced by one of 405 words reads in 2
C25_Witness ==
    \E it \in EntityItems(table) : \E p \in Procs :
        /\ res[p] = Result("update", "BLOG", it.Data.id, TRUE)
        /\ WordsOf(it.Data.content) = 405
        /\ it.Data.readTime = 2

\* ------------------------------------------------------------- certification types
\* C26 as stated: in every state that create, update, publish and unpublish
\* reach, a certification's index partition key names its current type, and
\* list_certifications(status, cert_type) returns only certifications whose
\* stored type is cert_type and whose status is status.
C26_ListByTypeMatchesStoredType ==
    repo = "CERT" =>
        /\ \A it \in EntityItems(table) : it.GSI1PK[4] = it.Data.type
        /\ \A status \in Statuses : \A cert_type \in CertTypes :
            LET listed == list_certifications(table, status, cert_type, ListLimit)
            IN  \A i \in 1..Len(listed) :
                    listed[i].type = cert_type /\ listed[i].status = status

\* ------------------------------------------------------------- repeat calls
\* handler p takes a step of a track call down the path of a marker found: the
\* lookup that finds the marker, or the read of the aggregate that follows it
RepeatPathStep(p) ==
    \/ pc[p] = Idle /\ pc'[p] \in {"view_read", "visitor_read"}
    \/ ViewRead(p)
    \/ VisitorRead(p)

\* C27: a track call that finds its session's marker writes nothing: the marker
\* with its expiry, the subject's aggregate with its index sort key and the grand
\* total stay as they are, and the call returns the aggregate's current value.
C27_RepeatCallWritesNothing ==
    [][\A p \in Procs : RepeatPathStep(p) =>
            /\ table' = table
            /\ pc'[p] = Idle =>
                    /\ ~res'[p].counted
                    /\ res'[p].value = CounterOf(table, res'[p])]_vars

\* a repeat track_view has returned the one view its session had counted before
C27_Witness ==
    \E p \in Procs :
        /\ pc[p] = Idle /\ res[p].op = "track_view" /\ ~res[p].counted /\ res[p].value = 1
        /\ get_item(table, <<"ANALYTICS", "SESSION", res[p].session>>,
                    <<res[p].kind, res[p].id>>) # None
        /\ get_total_views(table) = 1

\* ------------------------------------------------------------- marker expiry
\* the expiry of the marker of the view counted before the study begins: the
\* last instant of the study
InitialExpiry == MaxClock

\* the store's time-to-live on ExpiresAt: an item whose expiry has come is
\* deleted at some later moment of the store's choosing
Purge ==
    /\ \E k \in DOMAIN table :
        /\ HasAttr(table[k], "ExpiresAt")
        /\ table[k].ExpiresAt <= now
        /\ table' = [x \in DOMAIN table \ {k} |-> table[x]]
    /\ UNCHANGED <<now, nextId, pc, arg, tmp, res, repo, tracked>>

\* time passes between calls
TimePasses ==
    /\ now < Horizon
    /\ now' = now + 1
    /\ UNCHANGED <<table, nextId, pc, arg, tmp, res, repo, tracked>>

\* what a first track_view of blog 1 by session 1, TicksPerDay before
\* InitialExpiry, has left in the table
ViewedBefore ==
    put_item(put_item(put_item(<< >>,
        ViewAggregate("blog", 1, 1, InitialExpiry - TicksPerDay)),
        TotalAggregate(1, InitialExpiry - TicksPerDay)),
        [PK |-> <<"ANALYTICS", "SESSION", 1>>, SK |-> <<"blog", 1>>,
         EntityType |-> "ANALYTICS_SESSION",
         Data |-> [viewedAt |-> InitialExpiry - TicksPerDay],
         ExpiresAt |-> InitialExpiry])

\* what a first track_visitor of session 1 on day 0, the day before the study
\* begins, has left in the table
VisitedBefore ==
    put_item(put_item(put_item(<< >>,
        DailyAggregate(0, 1)),
        [PK |-> <<"VISITOR", "TOTAL">>, SK |-> <<"COUNT">>,
         EntityType |-> "VISITOR_TOTAL",
         Data |-> [totalCount |-> 1, lastUpdated |-> 0]]),
        [PK |-> <<"VISITOR", "SESSION", 1>>, SK |-> <<"TRACKED">>,
         EntityType |-> "VISITOR_SESSION",
         Data |-> [lastTrackedDate |-> 0, lastTrackedTime |-> 0],
         ExpiresAt |-> Midnight(0) + 2 * TicksPerDay])

InitExpiry ==
    /\ repo \in TrackRepos
    /\ table = IF repo = "ANALYTICS" THEN ViewedBefore ELSE VisitedBefore
    /\ tracked = IF repo = "ANALYTICS" THEN {<<1, "blog", 1>>} ELSE {<<1, 0>>}
    /\ now = 1
    /\ nextId = 1
    /\ pc = [p \in Procs |-> Idle]
    /\ arg = [p \in Procs |-> NoCall]
    /\ tmp = [p \in Procs |-> NoTmp]
    /\ res = [p \in Procs |-> NoResult]

\* one track call at a time, while time passes and the store purges what expired
NextExpiry ==
    \/ TrackStep(1, Sessions, OneContent)
    \/ Purge
    \/ TimePasses

SpecExpiry == InitExpiry /\ [][NextExpiry]_vars

\* the marker of the session and subject of a track call
MarkerOf(t, call) ==
    IF call.op = "track_view"
    THEN get_item(t, <<"ANALYTICS", "SESSION", call.data.session>>, <<call.kind, call.id>>)
    ELSE get_item(t, <<"VISITOR", "SESSION", call.data.session>>, <<"TRACKED">>)

\* the sessions whose marker of blog 1 was written during the study
FreshViewSessions(t) ==
    {s \in Sessions :
        LET marker == get_item(t, <<"ANALYTICS", "SESSION", s>>, <<"blog", 1>>)
        IN  marker # None /\ marker.ExpiresAt > InitialExpiry}

\* C28: with one call at a time, a track call that finds no marker (it was
\* purged, or never written), or for track_visitor a marker of an earlier day,
\* takes the counting path; a call that counted leaves the counter one above
\* what it was (for views: the view counted before plus one per marker written
\* since; for visitors: one per session that visited on that day) and a marker
\* that expires in the future; and between calls every day's count is the
\* number of sessions that visited on it, no session counting twice in a day.
C28_CountsAgainAfterExpiry ==
    [][/\ (pc[1] = Idle /\ pc'[1] # Idle) =>
            LET marker == MarkerOf(table, arg'[1])
            IN  (\/ marker = None
                 \/ /\ arg'[1].op = "track_visitor"
                    /\ marker.Data.lastTrackedDate # tmp'[1].cur.today)
                    => pc'[1] \in {"view_init", "daily_init"}
       /\ (TrackCompletes(1) /\ res'[1].counted) =>
            LET marker == MarkerOf(table', arg[1])
            IN  /\ marker # None
                /\ marker.ExpiresAt > now'
                /\ CounterOf(table', res'[1]) =
                        IF repo = "ANALYTICS"
                        THEN 1 + Cardinality(FreshViewSessions(table'))
                        ELSE Cardinality(SessionsOfDay(res'[1].day))
       /\ (repo = "VISITOR" /\ pc'[1] = Idle) =>
            \A d \in Days \cup {0} :
                get_daily_count(table', d) = Cardinality(SessionsOfDay(d))]_vars

\* session 1, whose marker of blog 1 was purged, has viewed blog 1 again and
\* been counted a second time
C28_Witness ==
    /\ repo = "ANALYTICS" /\ pc[1] = Idle
    /\ res[1].op = "track_view" /\ res[1].counted /\ res[1].session = 1
    /\ get_view_count(table, "blog", 1) = 2
    /\ MarkerOf(table, [op |-> "track_view", kind |-> "blog", id |-> 1,
                        data |-> [session |-> 1]]).ExpiresAt > now

\* ------------------------------------------------------------- returned counts
\* the last calls of handlers p and q counted the same subject
CountedSameSubject(p, q) ==
    /\ res[p].counted /\ res[q].counted
    /\ res[p].op = res[q].op /\ res[p].kind = res[q].kind
    /\ res[p].id = res[q].id /\ res[p].day = res[q].day

C30_RejectedTransitionWritesNothing ==
    [][\A p \in Procs : \A id \in Ids :
        /\ (PublishCompletes(p, id) /\ StatusOf(table, repo, id) = "PUBLISHED") =>
                ~res'[p].ok /\ table' = table
        /\ (UnpublishCompletes(p, id) /\ StatusOf(table, repo, id) = "DRAFT") =>
                ~res'[p].ok /\ table' = table]_vars

\* a publish of a PUBLISHED entity has returned None after the clock moved on,
\* and the record's updatedAt is still the earlier instant
C30_Witness ==
    \E id \in Ids :
        /\ pc[1] = Idle /\ res[1] = Result("publish", repo, id, FALSE)
        /\ StatusOf(table, repo, id) = "PUBLISHED"
        /\ Entity(table, repo, id).Data.updatedAt < now

\* ------------------------------------------------------------- update frame
\* partial maps that carry the names of fields update must not touch
ProtectedFields ==
    {[id |-> i, status |-> IF i = 1 THEN "PUBLISHED" ELSE "DRAFT",
      createdAt |-> MaxClock, publishedAt |-> MaxClock] : i \in Ids}

\* the partial maps of the study: the entity's name or title under key, the
\* protected names, or both
FrameFields(key) ==
    {[x \in {key} |-> "t2"]}
        \cup ProtectedFields
        \cup {SetAttr(h, key, "t2") : h \in ProtectedFields}

\* the partial maps update is called with: for a post also a new content
BlogFrameFields == FrameFields("title") \cup [content : {Text(400, 1, 1)}]

OtherFrameFields == FrameFields("name")

RepoFrameFields == IF repo = "BLOG" THEN BlogFrameFields ELSE OtherFrameFields

\* one request at a time: entities are created, updated with these maps,
\* published and unpublished; posts, whose content is long, under one id
FrameStep(p) ==
    \/ \E data \in ValidBlogFields({"t1"}, {}) : nextId \in 1..ConcIds /\ BlogCreate(p, data)
    \/ \E id \in 1..ConcIds : \E data \in RepoFrameFields : BlogUpdateGet(p, id, data)
    \/ BlogUpdateWrite(p)
    \/ \E id \in 1..ConcIds : BlogPublish(p, id)
    \/ \E id \in 1..ConcIds : BlogUnpublishGet(p, id)
    \/ BlogUnpublishWrite(p)
    \/ \E data \in ValidProjectFields({"t1"}) : nextId \in Ids /\ ProjectCreate(p, data)
    \/ \E id \in Ids : \E data \in RepoFrameFields : ProjectUpdate(p, id, data)
    \/ \E id \in Ids : ProjectPublish(p, id)
    \/ \E id \in Ids : ProjectUnpublish(p, id)
    \/ \E data \in ValidCertFields({"t1"}, {}) : nextId \in Ids /\ CertCreate(p, data)
    \/ \E id \in Ids : \E data \in RepoFrameFields : CertUpdate(p, id, data)
    \/ \E id \in Ids : CertPublishGet(p, id)
    \/ CertPublishWrite(p)
    \/ \E id \in Ids : CertUnpublishGet(p, id)
    \/ CertUnpublishWrite(p)

NextFrame == FrameStep(1)

SpecFrame == Init /\ [][NextFrame]_vars

\* handler p makes the write of update(id, data) in this step
UpdateWrites(p, id, data) ==
    \/ BlogUpdateWrite(p) /\ arg[p].id = id /\ arg[p].data = data
    \/ ProjectUpdate(p, id, data)
    \/ CertUpdate(p, id, data)

\* the fields update may set in the repository under study
Updatable ==
    CASE repo = "BLOG" -> BlogUpdatable
      [] repo = "PROJECT" -> ProjectUpdatable
      [] repo = "CERT" -> CertUpdatable

OtherRecords ==
    put_item(put_item(put_item(<< >>,
        blog_to_item(CreateData([title |-> "t1", category |-> ""], 1, 1), 1)),
        DailyAggregate(1, 1)),
        [PK |-> <<"VISITOR", "SESSION", 1>>, SK |-> <<"TRACKED">>,
         EntityType |-> "VISITOR_SESSION",
         Data |-> [lastTrackedDate |-> 1, lastTrackedTime |-> 1],
         ExpiresAt |-> Midnight(1) + 2 * TicksPerDay])

InitSubjects ==
    /\ table = OtherRecords
    /\ now = 1
    /\ nextId = 2
    /\ repo = "ANALYTICS"
    /\ pc = [p \in Procs |-> Idle]
    /\ arg = [p \in Procs |-> NoCall]
    /\ tmp = [p \in Procs |-> NoTmp]
    /\ res = [p \in Procs |-> NoResult]
    /\ tracked = {}

\* track_view calls, one at a time, of every session on both content ids of
\* one content type and one content id of the other
NextSubjects == AnalyticsStep(1, Sessions, SeqContents)

SpecSubjects == InitSubjects /\ [][NextSubjects]_vars

\* the records a track_view call of this subject by this session may write
SubjectKeys(call) ==
    {Key(<<"ANALYTICS", call.kind, call.id>>, <<"VIEWS">>),
     Key(<<"ANALYTICS", "SESSION", call.data.session>>, <<call.kind, call.id>>),
     Key(<<"ANALYTICS", "TOTAL">>, <<"VIEWS">>)}

\* the keys whose record a step stores, removes or changes
ChangedKeys ==
    {k \in DOMAIN table \cup DOMAIN table' :
        \/ k \notin DOMAIN table
        \/ k \notin DOMAIN table'
        \/ table'[k] # table[k]}

\* C32: every step of track_view(kind, content_id, session) changes no record
\* but the aggregate of (kind, content_id), the marker of (session, kind,
\* content_id) and the grand total: the aggregates of the content id under the
\* other kind and of other content ids, the visitor records and the entity
\* records stay as they are. A call whose session holds no marker of its own
\* subject takes the counting path whatever other markers the session holds,
\* and adds one to the subject's count.
C32_CountersIsolatedPerSubject ==
    [][LET call == arg'[1]
           before == arg[1]
       IN  /\ (pc[1] = Idle /\ pc'[1] # Idle) =>
                /\ ChangedKeys = {}
                /\ get_item(table, <<"ANALYTICS", "SESSION", call.data.session>>,
                            <<call.kind, call.id>>) = None => pc'[1] = "view_init"
           /\ pc[1] # Idle =>
                /\ ChangedKeys \subseteq SubjectKeys(before)
                /\ \A c \in ContentTypes \X ContentIds :
                        get_view_count(table', c[1], c[2]) =
                            get_view_count(table, c[1], c[2]) +
                            (IF pc[1] = "view_increment" /\ c = <<before.kind, before.id>>
                             THEN 1 ELSE 0)]_vars

\* a session that holds the marker of one content has been counted for the
\* same content id under the other type, next to the stored post and visitor
\* records
C32_Witness ==
    /\ pc[1] = Idle
    /\ res[1].op = "track_view" /\ res[1].counted
    /\ res[1].kind = "project" /\ res[1].id = 1
    /\ get_item(table, <<"ANALYTICS", "SESSION", res[1].session>>, <<"blog", 1>>) # None
    /\ get_view_count(table, "project", 1) = 1
    /\ get_view_count(table, "blog", 1) = 1
    /\ get_view_count(table, "blog", 2) = 0
    /\ Key(<<"BLOG", 1>>, <<"METADATA">>) \in DOMAIN table
    /\ Key(<<"VISITOR", "DAILY", 1>>, <<"COUNT">>) \in DOMAIN table

\* ------------------------------------------------------ certifications of a status
\* list_certifications(status, featured, limit) with a status and no type: one
\* query per type, each cut at limit; the featured filter, the sort by date and
\* the cut at limit are applied to what the two queries returned; the optional
\* featured is "True", "False" or Unset
list_certifications_of_status(t, status, featured, limit) ==
    LET all_items == cert_query(t, status, "certification", limit)
                        \o cert_query(t, status, "course", limit)
        filtered == IF featured = Unset THEN all_items
                    ELSE SelectSeq(all_items, LAMBDA item : item.Data.featured = (featured = "True"))
        items == FirstN(SortByDateEarnedDesc(filtered), limit)
    IN  [i \in 1..Len(items) |-> from_item(items[i])]

\* the field maps certifications are created with, and the dates an update sets
CertListFields == [name : {"t1"}, type : CertTypes, dateEarned : Times, featured : BOOLEAN]

CertListUpdates == [dateEarned : Times]

InitCert == InitContent /\ repo = "CERT"

\* create and update of certifications, one call at a time
NextCertList ==
    \/ \E data \in CertListFields : CertCreate(1, data)
    \/ \E id \in Ids : \E data \in CertListUpdates : CertUpdate(1, id, data)

SpecCertList == InitCert /\ [][NextCertList]_vars

\* the stored certifications of a status, restricted to those that match featured
CertsOf(t, status, featured) ==
    {from_item(it) : it \in {x \in EntityItems(t) :
        /\ x.Status = status
        /\ featured = Unset \/ x.Data.featured = (featured = "True")}}

\* C33 as stated: list_certifications(status=S, featured=F?, limit=L) with no
\* type returns L of the certifications of status S that match F (all of them
\* if there are fewer than L), none twice, sorted by dateEarned descending, and
\* no certification left out has a greater dateEarned than one returned.
C33_ListReturnsGreatestDates ==
    \A status \in Statuses : \A featured \in {"True", "False", Unset} : \A limit \in 1..ListLimit :
        LET page == list_certifications_of_status(table, status, featured, limit)
            certs == CertsOf(table, status, featured)
            returned == {page[i] : i \in 1..Len(page)}
        IN  /\ returned \subseteq certs
            /\ Cardinality(returned) = Len(page)
            /\ Len(page) = IF Cardinality(certs) < limit THEN Cardinality(certs) ELSE limit
            /\ \A i \in 1..Len(page) - 1 : page[i].dateEarned >= page[i + 1].dateEarned
            /\ \A c \in certs \ returned : \A r \in returned : c.dateEarned <= r.dateEarned

\* ------------------------------------------------------------ create and its id
\* the field maps create is called with: the fields of the kind alone, and with
\* an 'id', a 'status', or both next to them
CreateFields(fields) ==
    fields \cup {SetAttr(data, "id", id) : data \in fields, id \in Ids}
           \cup {SetAttr(data, "status", "PUBLISHED") : data \in fields}
           \cup {SetAttr(SetAttr(data, "id", id), "status", "PUBLISHED") : data \in fields, id \in Ids}

\* create, publish and unpublish of the entities of a kind, one call at a time
NextCreate ==
    \/ \E data \in CreateFields(ValidBlogFields({"t1", "t2"}, {})) : BlogCreate(1, data)
    \/ \E id \in Ids : BlogPublish(1, id)
    \/ \E data \in CreateFields(ValidProjectFields({"t1", "t2"})) : ProjectCreate(1, data)
    \/ \E id \in Ids : ProjectPublish(1, id)
    \/ \E data \in CreateFields(ValidCertFields({"t1", "t2"}, {})) : CertCreate(1, data)
    \/ \E id \in Ids : CertPublishGet(1, id)
    \/ CertPublishWrite(1)

SpecCreate == Init /\ [][NextCreate]_vars

\* handler p stores the record of a create call in this step
CreateWrites(p) ==
    /\ pc[p] = Idle
    /\ pc'[p] = Idle
    /\ res'[p].op = "create"
    /\ table' # table \/ res'[p] # res[p] \/ nextId' # nextId

\* C34 as stated: the record create stores has an id that no stored entity
\* had and status DRAFT, whatever the field map carries, and every entity
\* record stored before is stored unchanged after.
C34_CreateNeverOverwrites ==
    [][CreateWrites(1) =>
        /\ Entity(table, repo, res'[1].id) = None
        /\ Entity(table', repo, res'[1].id) # None
        /\ StatusOf(table', repo, res'[1].id) = "DRAFT"
        /\ \A k \in DOMAIN table : k \in DOMAIN table' /\ table'[k] = table[k]]_vars

\* ------------------------------------------------------- update against delete
\* posts with two categories to move between
RaceInputs == Inputs(1..ConcIds, {"t1"}, {"Backend", "DevOps"}, {})

\* create, update and delete of posts by handlers in parallel, no store call fails
NextCatRace == \E p \in Procs : BlogWriteStep(p, RaceInputs)

SpecCatRace == InitBlog /\ [][NextCatRace]_vars

\* handler p makes the conditional write of an update whose post was deleted
\* after the update read it
UpdateWritesAfterDelete(p) ==
    /\ BlogUpdateWrite(p)
    /\ Entity(table, "BLOG", arg[p].id) = None

\* C35 as stated: an update whose post was deleted between its read and its
\* conditional write returns absent with that write and makes no category
\* store call: the table, category counts included, stays as the delete left it.
C35_LateUpdateDoesNoBookkeeping ==
    [][\A p \in Procs : UpdateWritesAfterDelete(p) =>
            /\ pc'[p] = Idle
            /\ res'[p] = Result("update", "BLOG", arg[p].id, FALSE)
            /\ table' = table]_vars

\* ------------------------------------------------------- delete against delete
\* posts are created with or without a category while no other call runs, and
\* once create has returned they are deleted by handlers in parallel; no store
\* call fails
NextDeleteRace ==
    \/ \E data \in ValidBlogFields({"t1"}, {"Backend"}) :
            AllIdle /\ nextId \in Ids /\ BlogCreate(1, data)
    \/ IncrementCategoryInit(1)
    \/ IncrementCategoryAdd(1)
    \/ \E p \in Procs :
        \/ \E id \in Ids : arg[1].op # "create" /\ BlogDeleteGet(p, id)
        \/ BlogDeleteWrite(p)
        \/ DecrementCategory(p)

SpecDeleteRace == InitBlog /\ [][NextDeleteRace]_vars

\* the result of a delete call that handler p holds: returned, or to be returned
\* once the category is decremented
DeleteResultOf(p) ==
    IF pc[p] = "cat_dec" /\ arg[p].op = "delete" THEN tmp[p].out
    ELSE IF pc[p] = Idle /\ res[p].op = "delete" THEN res[p]
    ELSE NoResult

\* C36: of the delete calls for one post, interleaved in any way, the one whose
\* conditional delete finds the post returns True and decrements the post's
\* category once; every other returns False and decrements nothing. No two
\* handlers hold True for the same post, and with no call running the count of
\* each category is the number of stored posts of that category.
C36_ParallelDeleteOneWinner ==
    [][/\ \A p \in Procs : BlogDeleteWrite(p) =>
            LET id == arg[p].id
                category == tmp[p].cur.category
            IN  IF Entity(table, "BLOG", id) # None
                THEN /\ Entity(table', "BLOG", id) = None
                     /\ category_count(table', category) = category_count(table, category)
                     /\ IF category # ""
                        THEN pc'[p] = "cat_dec" /\ tmp'[p].out.ok /\ tmp'[p].cat = category
                        ELSE pc'[p] = Idle /\ res'[p].ok
                ELSE /\ table' = table
                     /\ pc'[p] = Idle
                     /\ res'[p] = Result("delete", "BLOG", id, FALSE)
       /\ \A p \in Procs : (DecrementCategory(p) /\ arg[p].op = "delete") =>
            /\ category_count(table', tmp[p].cat) = category_count(table, tmp[p].cat) - 1
            /\ pc'[p] = Idle
            /\ res'[p] = Result("delete", "BLOG", arg[p].id, TRUE)
       /\ \A p, q \in Procs :
            (p # q /\ DeleteResultOf(p)'.ok /\ DeleteResultOf(q)'.ok) =>
                DeleteResultOf(p)'.id # DeleteResultOf(q)'.id
       /\ AllIdle' =>
            \A r \in get_categories(table') : r.count = Cardinality(PostsIn(table', r.name))
      ]_vars

\* two deletes of one post with a category overlap: both have read the post,
\* the conditional delete of one has removed it and holds True, the other has
\* yet to make its own; the count is still to be decremented
C36_Witness ==
    /\ pc[1] = "cat_dec" /\ arg[1].op = "delete" /\ tmp[1].out.ok
    /\ pc[2] = "blog_delete_write" /\ arg[2].id = arg[1].id
    /\ Entity(table, "BLOG", arg[1].id) = None
    /\ category_count(table, "Backend") = 1

\* ---------------------------------------------------------------- no resurrection
\* handler p stores the record of a create call in this step, under a new id
CreateStores(p, id) ==
    /\ pc[p] = Idle
    /\ nextId = id
    /\ nextId' = id + 1
    /\ \/ arg'[p].op = "create" /\ arg'[p].id = id
       \/ res'[p].op = "create" /\ res'[p].id = id /\ pc'[p] = Idle

\* C37: in every step of handlers in parallel that create, update, publish,
\* unpublish and delete, a record comes to be stored under an entity's key only
\* by the put of a create call, under the id that call was handed; under the key
\* of an entity that was deleted (an id handed out before, with no record) no
\* step stores a record.
C37_NoResurrection ==
    [][\A id \in Ids :
        (Entity(table, repo, id) = None /\ Entity(table', repo, id) # None) =>
            /\ id >= nextId
            /\ \E p \in Procs : CreateStores(p, id)]_vars

\* an entity was created and deleted, and an update, publish or unpublish of it
\* by the other handler has returned absent; nothing is stored under its key
C37_Witness ==
    \E p, q \in Procs :
        /\ AllIdle
        /\ res[p] = Result("delete", repo, 1, TRUE)
        /\ res[q].op \in {"update", "publish", "unpublish"}
        /\ res[q].id = 1 /\ ~res[q].ok
        /\ nextId > 1
        /\ Entity(table, repo, 1) = None

\* ------------------------------------------------------------- totals and markers
InitViews == InitTrack /\ repo = "ANALYTICS"

\* the contents of one type
BlogContents == {"blog"} \X ContentIds

\* track_view calls of one session on every blog, by handlers in parallel; no
\* store call fails and no marker expires
NextViews == \E p \in Procs : AnalyticsStep(p, OneSession, BlogContents)

SpecViews == InitViews /\ [][NextViews]_vars

\* the sum of the viewCount of the stored aggregates
RECURSIVE SumViewCounts(_)
SumViewCounts(S) ==
    IF S = {} THEN 0
    ELSE LET item == CHOOSE x \in S : TRUE
         IN  Get(Get(item, "Data", << >>), "viewCount", 0) + SumViewCounts(S \ {item})

\* the session markers stored for a content
MarkersOf(t, content_type, content_id) ==
    {k \in DOMAIN t : /\ k[1][1] = "ANALYTICS" /\ k[1][2] = "SESSION"
                      /\ k[2] = <<content_type, content_id>>}

\* C38: in every state of track_view calls interleaved in any way, totalViews
\* is at most the sum of the viewCount of all contents, the two are equal when
\* no call is in progress, and a content has no more session markers than its
\* viewCount.
C38_TotalAndMarkersBounded ==
    /\ get_total_views(table) <= SumViewCounts(ViewItems(table))
    /\ AllIdle => get_total_views(table) = SumViewCounts(ViewItems(table))
    /\ \A c \in BlogContents :
            Cardinality(MarkersOf(table, c[1], c[2])) <= get_view_count(table, c[1], c[2])

\* both blogs were viewed, one of them by a session whose two calls overlapped
\* and were both counted; the total is the sum of the counts, and that blog has
\* fewer markers than views
C38_Witness ==
    /\ AllIdle
    /\ get_view_count(table, "blog", 1) = 2
    /\ get_view_count(table, "blog", 2) = 1
    /\ get_total_views(table) = 3
    /\ Cardinality(MarkersOf(table, "blog", 1)) = 1
====
